---- MODULE Spec2Model ----
(***************************************************************************)
(* Semantic Image Selection Engine of the presentation service:            *)
(* the matcher (services/image_matcher.py), the embedding client           *)
(* (services/clip_client.py) and the fetcher, rate limiter, pipelines and  *)
(* duplicate tracking of app.py.                                           *)
(*                                                                         *)
(* Similarity scores are fixed-point: 100 stands for 1.0.  Embeddings are  *)
(* integer vectors of Euclidean norm 5 (a unit vector scaled by 5), so a   *)
(* dot product of two of them is 25 times the cosine.                      *)
(***************************************************************************)
EXTENDS Integers, Sequences, FiniteSets, Bags, TLC

\* Python's None: as a text or URL, as an embedding and as a dict.
None == "None"
NoEmbedding == <<>>
NoneDict == [none |-> TRUE]

\* A Python assignment x = e followed by the rest of the body: e is
\* evaluated once and the rest reads its value.
Bind(e, rest(_)) == CHOOSE out \in { rest(x) : x \in {e} } : TRUE

\* ------------------------------------------------------------------ bounds
MaxCands == 3      \* longest candidate list handed to the matcher
MaxCalls == 1      \* fetch calls in one run of the fetcher
MaxRetries == 2    \* largest retries argument of a fetch call
MaxTicks == 2      \* clock advances in one run of the fetcher
TickSeconds == 30  \* seconds per clock advance
MaxProcs == 2      \* threads inside can_make_api_call at the same time

\* ------------------------------------------------------------------ state
VARIABLES
    clip_available,   \* clip_client._clip_available: None, "True" or "False"
    mcall,            \* the last pick_best_image_for_slide call and its result
    now,              \* time.time(), in seconds
    API_CALL_TIMES,   \* per provider, the timestamps of the rate-limit window (a bag)
    api_key,          \* per provider, whether its API key is configured
    fcall,            \* the last fetch call and its result
    ncalls,           \* fetch calls made so far
    USE_IMAGE_PROMPT,        \* app.py configuration, read from the environment at import
    USE_STRICT_CLIP_FILTER,
    CLIP_AVAILABLE,
    CLIP_MIN_CANDIDATES,
    TRANSLATION_ENABLED,
    TRANSLATION_PROVIDER,   \* 'none', 'libre', 'external' or anything else
    LIBRETRANSLATE_URL,     \* TRUE when the URL is not empty
    EXTERNAL_TRANSLATE_URL, \* TRUE when the URL is not empty
    TRANSLATION_CACHE,  \* the memo of translate_for_image_search: a set of [key, value]
    image_cache,        \* the files of IMAGE_CACHE_DIR: a set of [keywords, data]
    used_images_table,  \* the user's rows of the used_images table, in the order of their ids
    ucall,              \* the last operation on the used_images table and its result
    pc,                 \* create_presentation: "idle", "slides" (in the loop) or "done"
    user_id,            \* create_presentation's user_id; 0 stands for None
    topic,              \* create_presentation's topic
    history_images,     \* create_presentation's exclude_images (the user's history)
    used_images,        \* create_presentation's used_images
    slides_data,        \* create_presentation's slides_data
    prs,                \* per slide added so far, the picture placed on it
    scall,              \* the last image search of create_presentation and its result
    tcall,              \* the last call of translate_for_image_search and its result
    boot,               \* the process: "start", "imported" (clip_client) or "serving"
    clip_env,           \* the machine: dependencies installed, CLIP disabled by environment
    clip_model,         \* clip_client's _clip_model is not None
    load_calls,         \* the calls of clip.load so far, each "loaded" or "failed"
    image_embedding_cache,  \* _image_embedding_cache: its keys, oldest first
    image_cache_file,   \* clip_image_cache.pkl: the keys stored, or NoFile
    ecall,              \* the last two operations on the embedding client
    simcall,            \* the last call of compute_similarity and its result
    rcall               \* the concurrent calls of can_make_api_call, one per thread

matcher_vars == <<clip_available, mcall>>
fetcher_vars == <<now, API_CALL_TIMES, api_key, fcall, ncalls>>
config_vars == <<USE_IMAGE_PROMPT, USE_STRICT_CLIP_FILTER, CLIP_AVAILABLE,
                 CLIP_MIN_CANDIDATES, TRANSLATION_ENABLED, TRANSLATION_PROVIDER,
                 LIBRETRANSLATE_URL, EXTERNAL_TRANSLATE_URL>>
pres_vars == <<TRANSLATION_CACHE, image_cache, used_images_table, ucall, pc, user_id, topic,
               history_images, used_images, slides_data, prs, scall, tcall>>
clip_vars == <<boot, clip_env, clip_model, load_calls, image_embedding_cache,
               image_cache_file, ecall, simcall, rcall>>
vars == <<clip_available, mcall, now, API_CALL_TIMES, api_key, fcall, ncalls,
          USE_IMAGE_PROMPT, USE_STRICT_CLIP_FILTER, CLIP_AVAILABLE, CLIP_MIN_CANDIDATES,
          TRANSLATION_ENABLED, TRANSLATION_PROVIDER, LIBRETRANSLATE_URL,
          EXTERNAL_TRANSLATE_URL, TRANSLATION_CACHE, image_cache, used_images_table, ucall, pc,
          user_id, topic, history_images, used_images, slides_data, prs, scall, tcall,
          boot, clip_env, clip_model, load_calls, image_embedding_cache, image_cache_file,
          ecall, simcall, rcall>>

\* ------------------------------------------------- embedding client (CLIP)

\* is_clip_available(): the cached flag, or on the first call the outcome of
\* the model load (load_ok), which is then cached.
is_clip_available(flag, load_ok) ==
    IF flag # None THEN flag = "True" ELSE load_ok

\* The flag after is_clip_available() has returned avail.
clip_flag(avail) == IF avail THEN "True" ELSE "False"

\* CACHE_MAX_ENTRIES
CACHE_MAX_ENTRIES == 500

\* get_image_embedding saves the cache when its size is a multiple of this.
SAVE_EVERY == 10

\* clip_image_cache.pkl does not exist (keys are numbered from 1).
NoFile == <<0>>

\* clip_client's globals: _clip_available, _clip_model, the calls of
\* clip.load made so far, _image_embedding_cache and the cache file.
Client(available, model, loads, cache, file) ==
    [available |-> available, model |-> model, loads |-> loads, cache |-> cache,
     file |-> file]

\* _load_image_cache(): the file's content replaces the cache when the file
\* exists.
load_image_cache(cl) ==
    IF cl.file = NoFile THEN cl ELSE [cl EXCEPT !.cache = cl.file]

\* _save_image_cache()
save_image_cache(cl) == [cl EXCEPT !.file = cl.cache]

\* _init_clip_model(): nothing when the model is set; otherwise one call of
\* clip.load, which loads the model and the cache, or raises.
init_clip_model(cl, load_ok) ==
    IF cl.model THEN [cl |-> cl, raised |-> FALSE]
    ELSE IF load_ok
    THEN [cl |-> load_image_cache([cl EXCEPT !.model = TRUE,
                                              !.loads = Append(@, "loaded")]),
          raised |-> FALSE]
    ELSE [cl |-> [cl EXCEPT !.loads = Append(@, "failed")], raised |-> TRUE]

\* is_clip_available() with its effect on the globals: the cached flag, or
\* on the first call the import of the dependencies and the model load,
\* whose outcome is cached.
is_clip_available_call(cl, deps, load_ok) ==
    IF cl.available # None THEN [cl |-> cl, ret |-> cl.available = "True"]
    ELSE IF ~deps THEN [cl |-> [cl EXCEPT !.available = "False"], ret |-> FALSE]
    ELSE Bind(init_clip_model(cl, load_ok), LAMBDA r :
         IF r.raised THEN [cl |-> [r.cl EXCEPT !.available = "False"], ret |-> FALSE]
         ELSE [cl |-> [r.cl EXCEPT !.available = "True"], ret |-> TRUE])

\* The CLIP initialisation of app.py at start-up: skipped when disabled by
\* the environment; otherwise the dependencies are imported, clip.load is
\* called, clip_client's globals are set, the cache is loaded and the model
\* is tested.  ret is CLIP_AVAILABLE.
app_clip_initialization(cl, env, load_ok, test_ok) ==
    IF env.disabled THEN [cl |-> cl, ret |-> FALSE]
    ELSE IF ~env.deps THEN [cl |-> cl, ret |-> FALSE]
    ELSE IF ~load_ok THEN [cl |-> [cl EXCEPT !.loads = Append(@, "failed")], ret |-> FALSE]
    ELSE [cl |-> load_image_cache([cl EXCEPT !.model = TRUE, !.available = "True",
                                              !.loads = Append(@, "loaded")]),
          ret |-> test_ok]

\* image_url in _image_embedding_cache
cached(cache, image_url) == \E i \in 1..Len(cache) : cache[i] = image_url

\* The cache after get_image_embedding has stored a new key: the oldest
\* entry is removed when the size is over the limit.
limit_cache_size(cache) ==
    IF Len(cache) > CACHE_MAX_ENTRIES THEN Tail(cache) ELSE cache

\* get_image_embedding(image_url, use_cache) after its availability check
\* has returned a.ret and left the globals a.cl: fetched is whether the
\* download and the encoding succeed.  ret is whether an embedding is
\* returned; stored and saved tell whether the cache and the file were
\* written.
get_image_embedding(a, image_url, use_cache, fetched) ==
    IF ~a.ret
    THEN [cl |-> a.cl, ret |-> FALSE, stored |-> FALSE, saved |-> FALSE]
    ELSE IF use_cache /\ cached(a.cl.cache, image_url)
    THEN [cl |-> a.cl, ret |-> TRUE, stored |-> FALSE, saved |-> FALSE]
    ELSE IF ~fetched
    THEN [cl |-> a.cl, ret |-> FALSE, stored |-> FALSE, saved |-> FALSE]
    ELSE IF ~use_cache
    THEN [cl |-> a.cl, ret |-> TRUE, stored |-> FALSE, saved |-> FALSE]
    ELSE Bind(limit_cache_size(Append(a.cl.cache, image_url)), LAMBDA cache :
         IF Len(cache) % SAVE_EVERY = 0
         THEN [cl |-> save_image_cache([a.cl EXCEPT !.cache = cache]), ret |-> TRUE,
               stored |-> TRUE, saved |-> TRUE]
         ELSE [cl |-> [a.cl EXCEPT !.cache = cache], ret |-> TRUE,
               stored |-> TRUE, saved |-> FALSE])

\* The URLs of a batch that are not served from the cache.
urls_to_process(cache, image_urls, use_cache) ==
    SelectSeq(image_urls, LAMBDA url : ~(use_cache /\ cached(cache, url)))

\* The elements of a list.
Range(s) == { s[i] : i \in 1..Len(s) }

\* What a key of the returned dict maps to: an embedding, or None.
Embedding == "embedding"

\* {url: value for url in urls}
dict_of(keys, value) == [url \in keys |-> value]

\* results after the outer `except Exception`: every URL to process that has
\* no key yet gets None.
except_batch(results, to_process) ==
    results @@ dict_of(Range(to_process) \ DOMAIN results, "None")

\* get_image_embeddings_batch(image_urls, use_cache) after its availability
\* check.  responses is how the download of each URL ends: "200", another
\* status, or "raise" (the request or the decoding of the picture raises);
\* encode_ok is whether the batch encoding succeeds.  results is the dict
\* returned; every embedding computed is stored and the file is saved.
get_image_embeddings_batch(a, image_urls, use_cache, responses, encode_ok) ==
    IF ~a.ret
    THEN [cl |-> a.cl, ret |-> FALSE, stored |-> FALSE, saved |-> FALSE,
          results |-> dict_of(Range(image_urls), "None")]
    ELSE
    LET to_process == urls_to_process(a.cl.cache, image_urls, use_cache)
        from_cache == dict_of(Range(image_urls) \ Range(to_process), Embedding)
        valid_urls == SelectSeq(to_process, LAMBDA url : responses[url] = "200")
        downloaded ==
            from_cache @@ dict_of({ url \in Range(to_process) : responses[url] = "raise" },
                                  "None")
    IN
    IF to_process = <<>>
    THEN [cl |-> a.cl, ret |-> TRUE, stored |-> FALSE, saved |-> FALSE,
          results |-> from_cache]
    ELSE IF valid_urls = <<>>
    THEN [cl |-> a.cl, ret |-> FALSE, stored |-> FALSE, saved |-> FALSE,
          results |-> downloaded]
    ELSE IF ~encode_ok
    THEN [cl |-> a.cl, ret |-> FALSE, stored |-> FALSE, saved |-> FALSE,
          results |-> except_batch(downloaded, to_process)]
    ELSE IF ~use_cache
    THEN [cl |-> a.cl, ret |-> TRUE, stored |-> FALSE, saved |-> FALSE,
          results |-> dict_of(Range(valid_urls), Embedding) @@ downloaded]
    ELSE [cl |-> save_image_cache([a.cl EXCEPT !.cache = @ \o valid_urls]),
          ret |-> TRUE, stored |-> TRUE, saved |-> TRUE,
          results |-> dict_of(Range(valid_urls), Embedding) @@ downloaded]

\* clear_cache()
clear_cache(cl) == save_image_cache([cl EXCEPT !.cache = <<>>])

\* The embedding model as a table from text to a vector of norm 5; None where
\* encoding raises (the tokenizer rejects a text over its context length).
clip_encode_text(text) ==
    CASE text = "chart"   -> <<4, 3>>
      [] text = "team"    -> <<3, 4>>
      [] text = "cat"     -> <<-3, 4>>
      [] text = "revenue" -> <<5, 0>>
      [] text = "market"  -> <<4, -3>>
      [] text = "rynok"   -> <<3, -4>>
      [] OTHER            -> NoEmbedding

\* get_text_embedding(text): None for empty text, when the model is
\* unavailable, or when encoding raises; the LRU cache does not change the
\* value returned.
get_text_embedding(text, avail) ==
    IF text = "" THEN NoEmbedding
    ELSE IF ~avail THEN NoEmbedding
    ELSE clip_encode_text(text)

\* np.zeros(512): the placeholder for a description whose embedding failed.
zeros == <<0, 0>>

dot(a, b) == a[1] * b[1] + a[2] * b[2]

Min(a, b) == IF a < b THEN a ELSE b
Max(a, b) == IF a > b THEN a ELSE b

\* compute_similarity: the dot product clamped to [0, 1]; 0.0 when the
\* computation raises (an argument that is not a vector).
compute_similarity_unclamped(embedding1, embedding2) ==
    IF embedding1 = NoEmbedding \/ embedding2 = NoEmbedding THEN 0
    ELSE 4 * dot(embedding1, embedding2)

compute_similarity(embedding1, embedding2) ==
    IF embedding1 = NoEmbedding \/ embedding2 = NoEmbedding THEN 0
    ELSE Max(0, Min(100, 4 * dot(embedding1, embedding2)))

\* ------------------------------------------------------- semantic matcher

SIMILARITY_THRESHOLD == 25

\* dict.get(key) or ...: a missing key and an empty value are both falsy.
Absent == ""

\* dict.get(key)
get(d, key) == IF key \in DOMAIN d THEN d[key] ELSE Absent

\* desc = description or alt or attribution or slide_title
candidate_description(candidate, slide_title) ==
    IF get(candidate, "description") # Absent THEN candidate.description
    ELSE IF get(candidate, "alt") # Absent THEN candidate.alt
    ELSE IF get(candidate, "attribution") # Absent THEN candidate.attribution
    ELSE slide_title

\* slide_context = f"{slide_title}. {slide_content[:200]}": never empty; a
\* long title or content overflows the tokenizer.
slide_context(slide_title, slide_content) ==
    IF slide_content = "long" THEN "toolong"
    ELSE IF slide_title = "" THEN "dot" ELSE slide_title

best_index_ascending(scores) ==
    CHOOSE i \in 1..Len(scores) :
        /\ \A j \in 1..Len(scores) : scores[j] >= scores[i]
        /\ \A j \in 1..(i - 1) : scores[j] > scores[i]

\* scored_candidates.sort(key=similarity, reverse=True)[0]: Python's sort is
\* stable, so the best is the first candidate, in input order, of maximal
\* similarity.
best_index(scores) ==
    CHOOSE i \in 1..Len(scores) :
        /\ \A j \in 1..Len(scores) : scores[j] <= scores[i]
        /\ \A j \in 1..(i - 1) : scores[j] < scores[i]

\* f"{similarity:.3f}": the score as a string, no longer a number.
format_similarity(similarity) == <<"str", similarity>>

\* best['candidate'].copy() with the '_clip_similarity' key added
with_clip_similarity(candidate, similarity) ==
    [k \in DOMAIN candidate \cup {"_clip_similarity"} |->
        IF k = "_clip_similarity" THEN format_similarity(similarity)
        ELSE candidate[k]]

filter_excluded_none(image_candidates, exclude_images) == image_candidates

\* The candidates that pass the exclusion filter, in input order.
filter_excluded(image_candidates, exclude_images) ==
    SelectSeq(image_candidates, LAMBDA img : img.url \notin exclude_images)

below_threshold_or_equal(similarity, similarity_threshold) ==
    similarity <= similarity_threshold

below_threshold_inverted(similarity, similarity_threshold) ==
    similarity > similarity_threshold

below_threshold_never(similarity, similarity_threshold) == FALSE

\* The threshold gate: the best candidate is rejected.
below_threshold(similarity, similarity_threshold) ==
    similarity < similarity_threshold

fallback_candidate_unfiltered(image_candidates, candidates) == image_candidates[1]

\* return candidates[0]: the first candidate that passed the filter.
fallback_candidate(image_candidates, candidates) == candidates[1]

\* pick_best_image_for_slide.  ret is the returned dict or None; embedded is
\* the sequence of texts handed to get_text_embedding.
pick_best_image_for_slide(slide_title, slide_content, image_candidates, exclude_images, similarity_threshold, avail) ==
    IF image_candidates = <<>> THEN [ret |-> NoneDict, embedded |-> <<>>]
    ELSE
    LET candidates == filter_excluded(image_candidates, exclude_images) IN
    IF candidates = <<>> THEN [ret |-> NoneDict, embedded |-> <<>>]
    ELSE IF ~avail
    THEN [ret |-> fallback_candidate(image_candidates, candidates), embedded |-> <<>>]
    ELSE
    LET context == slide_context(slide_title, slide_content)
        context_embedding == get_text_embedding(context, avail)
    IN
    IF context_embedding = NoEmbedding
    THEN [ret |-> fallback_candidate(image_candidates, candidates),
          embedded |-> <<context>>]
    ELSE
    LET descriptions == [i \in 1..Len(candidates) |->
                            candidate_description(candidates[i], slide_title)]
        desc_embeddings == [i \in 1..Len(candidates) |->
            LET emb == get_text_embedding(descriptions[i], avail)
            IN  IF emb # NoEmbedding THEN emb ELSE zeros]
        scores == [i \in 1..Len(candidates) |->
            compute_similarity(context_embedding, desc_embeddings[i])]
        b == best_index(scores)
        embedded == <<context>> \o descriptions
    IN
    IF below_threshold(scores[b], similarity_threshold)
    THEN [ret |-> NoneDict, embedded |-> embedded]
    ELSE [ret |-> with_clip_similarity(candidates[b], scores[b]),
          embedded |-> embedded]

\* ---------------------------------------------------- rate-limited fetcher

Services == {"pexels", "unsplash"}

MAX_CALLS_PER_MINUTE == [pexels |-> 50, unsplash |-> 50]

\* A list of timestamps is kept as the bag of its entries: the code only
\* appends to it, filters it and takes its length.
\* n timestamps of the same instant.
stamps(n, t) == IF n = 0 THEN EmptyBag ELSE [x \in {t} |-> n]

\* The timestamps of a window that are younger than 60 seconds.
recent(times, current_time) ==
    [t \in { x \in DOMAIN times : current_time - x < 60 } |-> times[t]]

can_make_api_call_over(service, times, current_time) ==
    LET cleaned == recent(times, current_time) IN
    IF BagCardinality(cleaned) > MAX_CALLS_PER_MINUTE[service]
    THEN [ok |-> FALSE, times |-> cleaned]
    ELSE [ok |-> TRUE, times |-> cleaned (+) stamps(1, current_time)]

\* can_make_api_call(service) on the provider's window: drop the stale
\* timestamps, refuse at the budget, else record the call.
can_make_api_call(service, times, current_time) ==
    LET cleaned == recent(times, current_time) IN
    IF BagCardinality(cleaned) >= MAX_CALLS_PER_MINUTE[service]
    THEN [ok |-> FALSE, times |-> cleaned]
    ELSE [ok |-> TRUE, times |-> cleaned (+) stamps(1, current_time)]

\* data['photos'][:count]
first_n(photos, count) == SubSeq(photos, 1, Min(count, Len(photos)))

SourceName == [pexels |-> "Pexels", unsplash |-> "Unsplash"]

\* One photo of a provider's JSON in the unified format.
unified(service, photo) ==
    [url |-> photo.url, author |-> photo.author, source |-> SourceName[service],
     attribution |-> photo.author]

fetch_attempts_no_retry(service, attempt, retries, count, responses) ==
    LET response == responses[attempt + 1] IN
    IF attempt >= retries THEN [results |-> <<>>, sent |-> attempt]
    ELSE IF response.status = "200"
    THEN [results |-> [i \in 1..Len(first_n(response.photos, count)) |->
                          unified(service, response.photos[i])],
          sent |-> attempt + 1]
    ELSE [results |-> <<>>, sent |-> attempt + 1]

RECURSIVE fetch_attempts_retry_all(_, _, _, _, _)
fetch_attempts_retry_all(service, attempt, retries, count, responses) ==
    IF attempt >= retries THEN [results |-> <<>>, sent |-> attempt]
    ELSE
    LET response == responses[attempt + 1] IN
    IF response.status = "200"
    THEN [results |-> [i \in 1..Len(first_n(response.photos, count)) |->
                          unified(service, response.photos[i])],
          sent |-> attempt + 1]
    ELSE IF attempt < retries - 1
    THEN fetch_attempts_retry_all(service, attempt + 1, retries, count, responses)
    ELSE [results |-> <<>>, sent |-> attempt + 1]

\* for attempt in range(retries): the requests of one fetch call, from
\* attempt on.  responses[k] is the provider's answer to the k-th request:
\* status "200" (with photos), "429", "other" (any other status), "timeout",
\* or "error" (any other exception).  sent counts the requests made.
RECURSIVE fetch_attempts(_, _, _, _, _)
fetch_attempts(service, attempt, retries, count, responses) ==
    IF attempt >= retries THEN [results |-> <<>>, sent |-> attempt]
    ELSE
    LET response == responses[attempt + 1] IN
    CASE response.status = "200" ->
            [results |-> [i \in 1..Len(first_n(response.photos, count)) |->
                             unified(service, response.photos[i])],
             sent |-> attempt + 1]
      [] response.status = "429" ->
            IF attempt < retries - 1
            THEN fetch_attempts(service, attempt + 1, retries, count, responses)
            ELSE [results |-> <<>>, sent |-> attempt + 1]
      [] response.status = "timeout" ->
            IF attempt < retries - 1
            THEN fetch_attempts(service, attempt + 1, retries, count, responses)
            ELSE [results |-> <<>>, sent |-> attempt + 1]
      [] OTHER -> [results |-> <<>>, sent |-> attempt + 1]

\* fetch_images_from_pexels / fetch_images_from_unsplash: the key check, the
\* rate-limit check, then the requests.  times is the provider's window
\* after the call.
fetch_images_from(service, key, times, current_time, count, retries, responses) ==
    IF ~key THEN [results |-> <<>>, sent |-> 0, times |-> times]
    ELSE
    LET allowed == can_make_api_call(service, times, current_time) IN
    IF ~allowed.ok THEN [results |-> <<>>, sent |-> 0, times |-> allowed.times]
    ELSE
    LET r == fetch_attempts(service, 0, retries, count, responses)
    IN  [results |-> r.results, sent |-> r.sent, times |-> allowed.times]

\* ------------------------------------------------ providers and the network

\* A URL is a pair of a scheme and a locator, a cache file a tuple that starts
\* with the cache directory: both are compared with the in-run exclusion set.
Url(id) == <<"https", id>>

\* Python's None as a URL or path, and as image data.
NoUrl == <<>>
NoImage == <<>>

Photo1 == [url |-> Url("u1"), author |-> "chart"]
Photo2 == [url |-> Url("u2"), author |-> "team"]
Photo3 == [url |-> Url("u3"), author |-> "cat"]

Ok(photos) == [status |-> "200", photos |-> photos]
Status(s) == [status |-> s, photos |-> <<>>]

\* What a provider's search finds for a query (a list of words).
Catalog(service, query) ==
    LET has(w) == \E i \in 1..Len(query) : query[i] = w IN
    IF service = "pexels"
    THEN CASE has("revenue") -> <<Photo1, Photo2>>
           [] has("market")  -> <<Photo2, Photo3>>
           [] has("chart")   -> <<Photo1>>
           [] OTHER          -> <<>>
    ELSE CASE has("market")  -> <<Photo3>>
           [] has("rynok")   -> <<Photo1>>
           [] OTHER          -> <<>>

\* The network while one slide is searched: the status every provider
\* request gets, whether a download succeeds, whether the translation
\* provider answers, and whether the matcher raises.
Envs ==
    [status : {"200", "429", "other", "timeout", "error"},
     download_ok : BOOLEAN, translation : {"ok", "timeout"}, matcher_error : BOOLEAN,
     too_large : {{}, {Url("u1")}}]

\* The conditions that can show under the configuration: the matcher raises
\* only where it is called, the translation provider fails only where it is
\* asked.
EnvsNow ==
    { env \in Envs : /\ env.matcher_error => CLIP_AVAILABLE
                     /\ env.translation # "ok" => TRANSLATION_ENABLED
                     /\ env.too_large # {} => env.status = "200" /\ env.download_ok }

provider_response(service, query, env) ==
    IF env.status = "200" THEN Ok(Catalog(service, query)) ELSE Status(env.status)

\* ------------------------------------------------------- texts and queries

\* A slide text is one word or empty; a query is the list of its words
\* (' '.join(...) keeps the list).  text.split():
words(text) == IF text = "" THEN <<>> ELSE <<text>>

word_len(w) ==
    CASE w \in {"cat"}                  -> 3
      [] w \in {"text", "long", "team"} -> 4
      [] w \in {"chart", "rynok"}       -> 5
      [] w \in {"market"}               -> 6
      [] OTHER                          -> 7

\* CYRILLIC_RE.search(text) on a list of words; "rynok" stands for a
\* Russian word.
CYRILLIC_RE(query) == \E i \in 1..Len(query) : query[i] \in {"rynok"}

\* detect_language
detect_language(query) == IF CYRILLIC_RE(query) THEN "ru" ELSE "en"

TRANSLATION_TARGET_LANG == "en"

\* The translation provider's answer when it answers: word by word.
provider_translation(query) ==
    [i \in 1..Len(query) |-> IF query[i] = "rynok" THEN "market" ELSE query[i]]

\* str.strip() on a list of words, where " " stands for a run of whitespace.
RECURSIVE lstrip(_)
lstrip(text) == IF text # <<>> /\ Head(text) = " " THEN lstrip(Tail(text)) ELSE text

RECURSIVE rstrip(_)
rstrip(text) ==
    IF text # <<>> /\ text[Len(text)] = " " THEN rstrip(SubSeq(text, 1, Len(text) - 1))
    ELSE text

strip(text) == rstrip(lstrip(text))

\* libre_translate's clean-up of the answer: letters and single spaces only.
sanitize(translated) == SelectSeq(translated, LAMBDA x : x \notin {"rynok", " "})

\* How a request to a translation backend ends: an answer with a
\* translation, a timeout, a connection error, a status other than 200, an
\* answer without a translation, or any other exception.
TranslationOutcomes == {"ok", "timeout", "connection", "status", "empty", "error"}

\* The outcomes that are exceptions, and those a backend's except clauses
\* catch (Timeout, ConnectionError, Exception).
TranslationExceptions == {"timeout", "connection", "error"}

TranslationHandled == {"timeout", "connection", "error"}

\* The try block of a backend and its except clauses: the translation from
\* a good answer, the original text from every other outcome.
translate_request_error_text(text, env) ==
    [text |-> IF env.translation = "ok" THEN provider_translation(text)
              ELSE <<env.translation>>,
     raised |-> FALSE]

translate_request(text, env) ==
    [text |-> IF env.translation = "ok" /\ provider_translation(text) # <<>>
              THEN provider_translation(text) ELSE text,
     raised |-> env.translation \in TranslationExceptions \ TranslationHandled]

\* libre_translate(text, target_lang, source_lang)
libre_translate(text, env) ==
    IF ~LIBRETRANSLATE_URL THEN [text |-> text, requests |-> 0, raised |-> FALSE]
    ELSE IF env.translation = "ok" /\ sanitize(provider_translation(text)) = <<>>
    THEN [text |-> text, requests |-> 1, raised |-> FALSE]
    ELSE [text |-> IF env.translation = "ok"
                   THEN sanitize(translate_request(text, env).text)
                   ELSE translate_request(text, env).text,
          requests |-> 1, raised |-> translate_request(text, env).raised]

\* external_translate(text, target_lang, source_lang)
external_translate(text, env) ==
    IF ~EXTERNAL_TRANSLATE_URL THEN [text |-> text, requests |-> 0, raised |-> FALSE]
    ELSE [text |-> translate_request(text, env).text, requests |-> 1,
          raised |-> translate_request(text, env).raised]

\* translate_for_image_search's routing to the configured provider.
provider_translate_always_libre(text, env) == libre_translate(text, env)

provider_translate(text, env) ==
    CASE TRANSLATION_PROVIDER = "none"     -> [text |-> text, requests |-> 0, raised |-> FALSE]
      [] TRANSLATION_PROVIDER = "libre"    -> libre_translate(text, env)
      [] TRANSLATION_PROVIDER = "external" -> external_translate(text, env)
      [] OTHER                             -> [text |-> text, requests |-> 0, raised |-> FALSE]

\* The state the image search reads and writes, threaded through its calls:
\* the rate-limit windows, the image cache and the translation memo; log is
\* the trace of the calls made (what the code prints as it goes).
World(times, cache, memo) ==
    [times |-> times, image_cache |-> cache, memo |-> memo, log |-> <<>>]

\* One more entry of the trace.
logged(w, op, arg) == [w EXCEPT !.log = Append(@, [op |-> op, arg |-> arg])]

\* translate_for_image_search(text, source_lang, context); requests counts
\* the network calls made.  The cache key is lowercased in the code; the
\* words here are lowercase.
translate_for_image_search(text, source_lang, context, env, w) ==
    IF strip(text) = <<>> THEN [text |-> <<>>, w |-> w, requests |-> 0, raised |-> FALSE]
    ELSE
    LET stripped == strip(text)
        lang == IF source_lang = None THEN detect_language(stripped) ELSE source_lang
        cache_key == <<context, stripped>>
        unchanged == [text |-> stripped, w |-> w, requests |-> 0, raised |-> FALSE]
    IN
    IF ~TRANSLATION_ENABLED THEN unchanged
    ELSE IF lang = TRANSLATION_TARGET_LANG THEN unchanged
    ELSE IF \E e \in w.memo : e.key = cache_key
    THEN [unchanged EXCEPT !.text = (CHOOSE e \in w.memo : e.key = cache_key).value]
    ELSE
    LET translated == provider_translate(stripped, env)
        wt == IF translated.requests > 0
              THEN logged(w, "translate", [context |-> context, text |-> stripped])
              ELSE w
    IN
    IF translated.raised
    THEN [text |-> <<>>, w |-> wt, requests |-> translated.requests, raised |-> TRUE]
    ELSE IF translated.text # <<>> /\ translated.text # stripped
    THEN [text |-> translated.text,
          w |-> [wt EXCEPT !.memo = @ \cup {[key |-> cache_key, value |-> translated.text]}],
          requests |-> translated.requests, raised |-> FALSE]
    ELSE [text |-> translated.text, w |-> wt, requests |-> translated.requests,
          raised |-> FALSE]

\* translate_keyword_to_english(keyword, topic)
translate_keyword_to_english(keyword, main_topic, env, w) ==
    translate_for_image_search(keyword, None, <<main_topic>>, env, w)

\* ------------------------------------------------------- the image search

DEFAULT_RETRIES == 2

\* fetch_images_from_pexels / _unsplash (query, count) on the threaded state.
fetch_images(service, query, count, env, w) ==
    Bind(fetch_images_from(service, api_key[service], w.times[service], now, count,
             DEFAULT_RETRIES,
             [i \in 1..DEFAULT_RETRIES |-> provider_response(service, query, env)]),
         LAMBDA r : [results |-> r.results,
                     w |-> [w EXCEPT !.times[service] = r.times]])

\* get_images(query, count) in the 'mixed' provider mode: Pexels, then
\* Unsplash when Pexels gave nothing.
get_images(query, count, env, w) ==
    Bind(fetch_images("pexels", query, count, env, w), LAMBDA p :
         IF p.results # <<>> THEN p
         ELSE fetch_images("unsplash", query, count, env, p.w))

\* search_image(query): the URL of the first result, or None.
search_image(query, env, w) ==
    Bind(get_images(query, 1, env, w), LAMBDA g :
         [url |-> IF g.results # <<>> THEN g.results[1].url ELSE NoUrl, w |-> g.w])

\* os.path.join(IMAGE_CACHE_DIR, md5(keywords) + ".jpg")
cache_file(keywords) == <<"image_cache">> \o keywords

\* get_cached_image_path(keywords): the file if it exists, else None.
get_cached_image_path(keywords, cache) ==
    IF \E e \in cache : e.keywords = keywords THEN cache_file(keywords) ELSE NoUrl

\* open(cached_path, 'rb').read()
read_cached_image(keywords, cache) ==
    (CHOOSE e \in cache : e.keywords = keywords).data

\* save_image_to_cache(image_data, keywords): the file is (over)written.
save_image_to_cache(image_data, keywords, cache) ==
    { e \in cache : e.keywords # keywords }
        \cup {[keywords |-> keywords, data |-> image_data]}

\* MAX_IMAGE_SIZE = 10 * 1024 * 1024, in megabytes.
MAX_IMAGE_SIZE == 10

\* The size of the picture behind a URL (the content-length header, or the
\* bytes that arrive), in megabytes.
content_length(url, env) == IF url \in env.too_large THEN MAX_IMAGE_SIZE + 1 ELSE 1

download_image_any_size(url, env) ==
    IF env.download_ok THEN <<"jpeg", url[2]>> ELSE NoImage

\* download_image(url): the picture behind the URL, or None on any failure
\* and for a picture over the size limit.
download_image(url, env) ==
    IF env.download_ok /\ content_length(url, env) <= MAX_IMAGE_SIZE
    THEN <<"jpeg", url[2]>> ELSE NoImage

\* What one call of download_image did, for the trace.
download_event(url, env) ==
    [url |-> url, ok |-> download_image(url, env) # NoImage,
     too_large |-> content_length(url, env) > MAX_IMAGE_SIZE]

\* detect_presentation_content_type: 'business' when a business keyword
\* occurs in the topic, title or content, else 'educational'.
detect_presentation_content_type(main_topic, slide_title, slide_content) ==
    IF {main_topic, slide_title, slide_content} \cap {"market", "revenue"} # {}
    THEN "business" ELSE "educational"

\* for kw in (title_keywords + content_keywords): a Cyrillic keyword is
\* translated, and kept as it is when the translation is empty or the same.
RECURSIVE translate_keywords(_, _, _, _, _)
translate_keywords(keywords, i, main_topic, env, acc) ==
    IF i > Len(keywords) THEN acc
    ELSE IF ~CYRILLIC_RE(<<keywords[i]>>)
    THEN Bind([acc EXCEPT !.text = Append(@, keywords[i])],
              LAMBDA a : translate_keywords(keywords, i + 1, main_topic, env, a))
    ELSE
    Bind(translate_keyword_to_english(<<keywords[i]>>, main_topic, env, acc.w),
         LAMBDA t :
    Bind([text |-> acc.text \o (IF t.text # <<>> /\ t.text # <<keywords[i]>>
                                THEN t.text ELSE <<keywords[i]>>),
          w |-> t.w],
         LAMBDA a : translate_keywords(keywords, i + 1, main_topic, env, a)))

\* generate_intelligent_image_query: the english_query, built from the
\* title words of four letters or more (three at most), the content words
\* of five or more (two at most), Cyrillic ones translated: the first two
\* translated keywords and the first modifier of the content type.
generate_intelligent_image_query(slide_title, slide_content, main_topic, env, w) ==
    LET content_type ==
            detect_presentation_content_type(main_topic, slide_title, slide_content)
        title_keywords ==
            first_n(SelectSeq(words(slide_title), LAMBDA x : word_len(x) >= 4), 3)
        content_keywords ==
            first_n(SelectSeq(words(slide_content), LAMBDA x : word_len(x) >= 5), 2)
        modifier == IF content_type = "business" THEN "professional" ELSE "educational"
    IN  Bind(title_keywords \o content_keywords, LAMBDA keywords :
        Bind(translate_keywords(keywords, 1, main_topic, env, [text |-> <<>>, w |-> w]),
             LAMBDA t : [english_query |-> first_n(t.text, 2) \o <<modifier>>,
                         w |-> t.w]))

unused_any(image_url, images) == TRUE

\* image_url not in used_images
unused(image_url, images) == image_url \notin images

\* attempts.append((query, attempt_name))
Attempt(query, attempt_name) == [query |-> query, name |-> attempt_name]

fallback_attempts_title_first(english_query, keyword, translated, slide_title, main_topic) ==
    <<Attempt(words(slide_title), "Slide title"), Attempt(english_query, "Intelligent")>>

\* The attempts of search_image_with_fallback, in order; translated tells
\* whether the keyword went through translate_keyword_to_english.
fallback_attempts(english_query, keyword, translated, slide_title, main_topic) ==
    LET a1 == IF english_query # <<>>
              THEN <<Attempt(english_query, "Intelligent")>> ELSE <<>>
        a2 == IF keyword # <<>> /\ keyword # english_query
              THEN Append(a1, Attempt(keyword, IF translated THEN "Translated keyword"
                                               ELSE "Original keyword"))
              ELSE a1
        a3 == IF slide_title # "" /\ words(slide_title) # english_query
              THEN Append(a2, Attempt(words(slide_title), "Slide title")) ELSE a2
    IN  IF main_topic # "" /\ \A i \in 1..Min(3, Len(a3)) : a3[i].query # words(main_topic)
        THEN Append(a3, Attempt(words(main_topic), "Main topic")) ELSE a3

\* for query, attempt_name in attempts: the cache, then the providers.
RECURSIVE try_attempts(_, _, _, _, _)
try_attempts(attempts, i, images, env, w) ==
    IF i > Len(attempts) THEN [data |-> NoImage, url |-> NoUrl, w |-> w]
    ELSE
    LET query == attempts[i].query
        cached_path == get_cached_image_path(query, w.image_cache)
        wa == logged(w, "attempt", attempts[i])
    IN
    IF query = <<>> THEN try_attempts(attempts, i + 1, images, env, w)
    ELSE IF cached_path # NoUrl /\ unused(cached_path, images)
    THEN [data |-> read_cached_image(query, w.image_cache), url |-> cached_path,
          w |-> logged(wa, "cached", cached_path)]
    ELSE
    Bind(search_image(query, env, wa), LAMBDA s :
    LET image_data == download_image(s.url, env)
        wd == IF s.url # NoUrl /\ unused(s.url, images)
              THEN logged(s.w, "download", download_event(s.url, env)) ELSE s.w
    IN
    IF s.url # NoUrl /\ unused(s.url, images) /\ image_data # NoImage
    THEN [data |-> image_data, url |-> s.url,
          w |-> [wd EXCEPT !.image_cache = save_image_to_cache(image_data, query, @)]]
    ELSE try_attempts(attempts, i + 1, images, env, wd))

\* search_image_with_fallback(search_keyword, slide_title, main_topic,
\* used_images, presentation_type, slide_content)
search_image_with_fallback(search_keyword, slide_title, main_topic, images, slide_content, env, w) ==
    Bind(generate_intelligent_image_query(slide_title, slide_content, main_topic, env, w),
         LAMBDA g :
    Bind(IF search_keyword # <<>> /\ CYRILLIC_RE(search_keyword)
         THEN translate_keyword_to_english(search_keyword, main_topic, env, g.w)
         ELSE [text |-> search_keyword, w |-> g.w],
         LAMBDA k :
    Bind(fallback_attempts(g.english_query, k.text,
                           search_keyword # <<>> /\ CYRILLIC_RE(search_keyword),
                           slide_title, main_topic),
         LAMBDA attempts : try_attempts(attempts, 1, images, env, k.w))))

\* ------------------------------------------------------------ the pipelines

CLIP_SIMILARITY_THRESHOLD == 30

CANDIDATE_COUNT == 6

\* Python's None as a query.
NoQuery == <<None>>

\* if 'description' not in candidate:
\*     candidate['description'] = attribution or author or slide_title
with_description(candidate, slide_title) ==
    IF "description" \in DOMAIN candidate THEN candidate
    ELSE [k \in DOMAIN candidate \cup {"description"} |->
            IF k # "description" THEN candidate[k]
            ELSE IF get(candidate, "attribution") # Absent THEN candidate.attribution
            ELSE IF get(candidate, "author") # Absent THEN candidate.author
            ELSE slide_title]

\* USE_STRICT_CLIP_FILTER and similarity != 'N/A' and
\* similarity < CLIP_SIMILARITY_THRESHOLD, on the picked image: ordering the
\* formatted string against the float threshold raises TypeError.
strict_check(best_image) ==
    IF ~USE_STRICT_CLIP_FILTER \/ "_clip_similarity" \notin DOMAIN best_image
    THEN "accept"
    ELSE LET similarity == best_image["_clip_similarity"] IN
         IF similarity[1] = "str" THEN "TypeError"
         ELSE IF similarity[2] < CLIP_SIMILARITY_THRESHOLD THEN "reject" ELSE "accept"

except_unguarded(t) == t

\* except Exception as e: the error is printed and the pipeline goes on.
except_clip_ranking(t) ==
    IF t.kind = "raise" THEN [t EXCEPT !.kind = "fallback", !.caught = TRUE] ELSE t

\* The try block of the CLIP ranking: pick, check, download.
try_clip_ranking(slide_title, slide_content, candidates, images, env) ==
    Bind(pick_best_image_for_slide(slide_title, slide_content, candidates, images,
             IF USE_STRICT_CLIP_FILTER THEN CLIP_SIMILARITY_THRESHOLD ELSE 0,
             clip_available = "True").ret,
         LAMBDA best_image :
    LET picked(ret, raised) ==
            [op |-> "pick_best",
             arg |-> [title |-> slide_title, content |-> slide_content,
                      candidates |-> candidates, ret |-> ret, raised |-> raised,
                      downloadable |-> ret # NoneDict /\ download_image(ret.url, env) # NoImage]]
        none == [kind |-> "fallback", data |-> NoImage, url |-> NoUrl, caught |-> FALSE,
                 log |-> <<picked(best_image, FALSE)>>]
        image_data == download_image(best_image.url, env)
        downloaded == Append(none.log, [op |-> "download",
                                        arg |-> download_event(best_image.url, env)])
    IN
    IF env.matcher_error
    THEN [none EXCEPT !.kind = "raise", !.log = <<picked(NoneDict, TRUE)>>]
    ELSE IF best_image = NoneDict THEN none
    ELSE IF strict_check(best_image) = "TypeError" THEN [none EXCEPT !.kind = "raise"]
    ELSE IF strict_check(best_image) = "reject" THEN none
    ELSE IF image_data # NoImage
    THEN [none EXCEPT !.kind = "return", !.data = image_data, !.url = best_image.url,
                      !.log = downloaded]
    ELSE [none EXCEPT !.log = downloaded])

too_few_candidates_never(candidates) == FALSE

too_few_candidates_above(candidates) ==
    candidates # <<>> /\ Len(candidates) > CLIP_MIN_CANDIDATES

\* if candidates and len(candidates) < CLIP_MIN_CANDIDATES: candidates = []
too_few_candidates(candidates) ==
    candidates # <<>> /\ Len(candidates) < CLIP_MIN_CANDIDATES

\* The CLIP stage of a pipeline (if CLIP_AVAILABLE: ...): fetch candidates
\* for the query, else for the title; skip the ranking below the minimum.
clip_ranking(slide_title, slide_content, query, images, env, w) ==
    LET none == [kind |-> "fallback", data |-> NoImage, url |-> NoUrl, caught |-> FALSE]
    IN
    IF ~CLIP_AVAILABLE THEN [stage |-> none, w |-> w]
    ELSE
    Bind(get_images(query, CANDIDATE_COUNT, env, w), LAMBDA g1 :
    Bind(IF g1.results = <<>>
         THEN get_images(words(slide_title), CANDIDATE_COUNT, env, g1.w) ELSE g1,
         LAMBDA g2 :
    Bind(IF too_few_candidates(g2.results) THEN <<>> ELSE g2.results,
         LAMBDA candidates :
    Bind([i \in 1..Len(candidates) |-> with_description(candidates[i], slide_title)],
         LAMBDA described :
    Bind(logged(g2.w, "candidates", Len(g2.results)), LAMBDA wc :
    IF candidates = <<>> THEN [stage |-> none, w |-> wc]
    ELSE
    Bind(except_clip_ranking(
             try_clip_ranking(slide_title, slide_content, described, images, env)),
         LAMBDA stage : [stage |-> stage, w |-> [wc EXCEPT !.log = @ \o stage.log]]))))))

\* The words of four letters or more of the title and the content snippet,
\* the first three of them; the title when there are none.
extract_keywords(slide_title, slide_content) ==
    LET keywords == SelectSeq(words(slide_title) \o words(slide_content),
                              LAMBDA x : word_len(x) >= 4)
    IN  IF keywords # <<>> THEN first_n(keywords, 3) ELSE words(slide_title)

\* The end of both pipelines: the CLIP stage's image, else the keyword
\* search's, else (None, None, None).
finish_search(c, slide_title, slide_content, query, main_topic, images, env) ==
    IF c.stage.kind = "raise"
    THEN [raised |-> TRUE, caught |-> FALSE, data |-> NoImage, url |-> NoUrl,
          query |-> NoQuery, w |-> c.w]
    ELSE IF c.stage.kind = "return"
    THEN [raised |-> FALSE, caught |-> FALSE, data |-> c.stage.data, url |-> c.stage.url,
          query |-> query, w |-> c.w]
    ELSE
    Bind(search_image_with_fallback(query, slide_title, main_topic, images,
                                    slide_content, env, logged(c.w, "fallback", query)),
         LAMBDA f :
    IF f.url # NoUrl
    THEN [raised |-> FALSE, caught |-> c.stage.caught, data |-> f.data, url |-> f.url,
          query |-> query, w |-> f.w]
    ELSE [raised |-> FALSE, caught |-> c.stage.caught, data |-> NoImage, url |-> NoUrl,
          query |-> NoQuery, w |-> f.w])

legacy_language_always_ru(slide_title, slide_content) == "ru"

\* language = detect_language(f"{slide_title} {slide_content[:50]}")
legacy_language(slide_title, slide_content) ==
    detect_language(words(slide_title) \o words(slide_content))

\* search_image_legacy_mode
search_image_legacy_mode(slide_title, slide_content, main_topic, images, search_keyword, env, w) ==
    LET extracted == IF search_keyword # Absent THEN words(search_keyword)
                     ELSE extract_keywords(slide_title, slide_content)
        language == legacy_language(slide_title, slide_content)
    IN
    Bind(translate_for_image_search(extracted, language,
                                    <<"legacy_search", slide_title>>, env,
                                    logged(w, "query", extracted)),
         LAMBDA t :
    Bind(clip_ranking(slide_title, slide_content, t.text, images, env, t.w),
         LAMBDA c :
    finish_search(c, slide_title, slide_content, t.text, main_topic, images, env)))

\* slide_content + " Image target: ..." as the matcher sees it: only the
\* length of the content matters to the encoder.
with_image_target(slide_content, image_prompt) ==
    IF image_prompt = Absent THEN slide_content
    ELSE IF slide_content = "long" THEN "long" ELSE "text"

\* build_image_search_query
build_image_search_query(slide_title, slide_content, image_prompt, env, w) ==
    IF image_prompt # Absent THEN [text |-> words(image_prompt), w |-> w]
    ELSE translate_for_image_search(extract_keywords(slide_title, slide_content),
             detect_language(words(slide_title) \o words(slide_content)),
             <<"image_search", slide_title>>, env, w)

\* search_image_advanced_mode
search_image_advanced_mode(slide_title, slide_content, main_topic, images, image_prompt, env, w) ==
    Bind(build_image_search_query(slide_title, slide_content, image_prompt, env, w),
         LAMBDA t :
    Bind(clip_ranking(slide_title, with_image_target(slide_content, image_prompt),
                      t.text, images, env, t.w),
         LAMBDA c :
    finish_search(c, slide_title, slide_content, t.text, main_topic, images, env)))

\* search_image_for_slide: the routing on USE_IMAGE_PROMPT.
search_image_for_slide(slide_title, slide_content, main_topic, images, env, w) ==
    IF ~USE_IMAGE_PROMPT
    THEN search_image_legacy_mode(slide_title, slide_content, main_topic, images,
                                  Absent, env, w)
    ELSE search_image_advanced_mode(slide_title, slide_content, main_topic, images,
                                    Absent, env, w)

\* ------------------------------------------------------ used-images table

USED_IMAGES_LIMIT == 100

\* A row of used_images: used_date is CURRENT_TIMESTAMP, in whole seconds.
UsedImage(image_url, used_date) == [image_url |-> image_url, used_date |-> used_date]

\* ORDER BY used_date DESC: the orders in which the rows can come, as lists of
\* positions in the table.  Rows of the same second come in any order.
order_by_used_date_desc(table) ==
    { o \in [1..Len(table) -> 1..Len(table)] :
        /\ \A i, j \in 1..Len(table) : i # j => o[i] # o[j]
        /\ \A i, j \in 1..Len(table) :
              i < j => table[o[i]].used_date >= table[o[j]].used_date }

\* LIMIT ?
limit_rows(order, limit) == SubSeq(order, 1, Min(limit, Len(order)))

\* get_used_images_for_user(user_id, limit): the URLs of the first limit
\* rows in the order the query yields.
get_used_images_for_user(uid, table, limit, order) ==
    IF uid = 0 THEN <<>>
    ELSE [i \in 1..Len(limit_rows(order, limit)) |-> table[order[i]].image_url]

\* add_used_image(user_id, image_url, query) at used_date
add_used_image(uid, image_url, table, used_date) ==
    IF uid = 0 \/ image_url = NoUrl THEN table
    ELSE Append(table, UsedImage(image_url, used_date))

\* The positions at or after position i that the subquery has selected.
RECURSIVE kept_from(_, _, _)
kept_from(table, selected, i) ==
    IF i > Len(table) THEN <<>>
    ELSE IF i \in selected THEN <<table[i]>> \o kept_from(table, selected, i + 1)
    ELSE kept_from(table, selected, i + 1)

\* cleanup_old_used_images(user_id, keep_count): the rows outside the first
\* keep_count of the subquery's order are deleted.
cleanup_old_used_images(uid, table, keep_count, order) ==
    IF uid = 0 THEN table
    ELSE kept_from(table, {order[i] : i \in 1..Min(keep_count, Len(order))}, 1)

\* No operation on the used_images table yet.
NoUsed ==
    [op |-> "none", uid |-> 0, n |-> 0, before |-> <<>>, ret |-> <<>>, recorded |-> 0]

\* ------------------------------------- presentations: inputs and the run

RevenueSlide ==
    [title |-> "revenue", content |-> "text", search_keyword |-> Absent,
     image_prompt |-> Absent]
LongSlide ==
    [title |-> "revenue", content |-> "long", search_keyword |-> Absent,
     image_prompt |-> Absent]
MarketSlide ==
    [title |-> "market", content |-> "text", search_keyword |-> "chart",
     image_prompt |-> "team"]
RussianSlide ==
    [title |-> "rynok", content |-> "text", search_keyword |-> Absent,
     image_prompt |-> Absent]

\* A Russian slide with an English search keyword, and an English slide
\* with a Russian one.
RussianHintedSlide ==
    [title |-> "rynok", content |-> "text", search_keyword |-> "chart",
     image_prompt |-> Absent]
RussianKeywordSlide ==
    [title |-> "market", content |-> "text", search_keyword |-> "rynok",
     image_prompt |-> "team"]

SlidePool == {RevenueSlide, LongSlide, MarketSlide, RussianSlide, RussianHintedSlide,
              RussianKeywordSlide}

\* The slide lists of the presentations generated.
Decks ==
    { <<LongSlide>>, <<RevenueSlide, RevenueSlide>>, <<RevenueSlide, LongSlide>>,
      <<MarketSlide, RevenueSlide>>, <<RussianSlide, MarketSlide>> }

Topics == {"market"}

NoSearch ==
    [done |-> FALSE, title |-> "", content |-> "", hinted |-> FALSE, topic |-> "",
     exclude |-> {}, data |-> NoImage, url |-> NoUrl, query |-> NoQuery,
     raised |-> FALSE, caught |-> FALSE, log |-> <<>>]

IdleCall ==
    [done |-> TRUE, title |-> "", content |-> "", candidates |-> <<>>,
     exclude |-> {}, threshold |-> 0, avail |-> FALSE,
     ret |-> NoneDict, embedded |-> <<>>]

\* No call of translate_for_image_search yet.
NoTranslate ==
    [done |-> FALSE, text |-> <<>>, source_lang |-> None, context |-> <<>>,
     outcome |-> "ok", memo |-> {}, ret |-> <<>>, requests |-> 0, raised |-> FALSE]

SlidesIdle ==
    /\ image_cache = {}
    /\ used_images_table = <<>>
    /\ ucall = NoUsed
    /\ pc = "idle"
    /\ user_id = 0
    /\ topic = ""
    /\ history_images = {}
    /\ used_images = {}
    /\ slides_data = <<>>
    /\ prs = <<>>
    /\ scall = NoSearch

PresIdle ==
    /\ USE_IMAGE_PROMPT = FALSE
    /\ USE_STRICT_CLIP_FILTER = FALSE
    /\ CLIP_AVAILABLE = FALSE
    /\ CLIP_MIN_CANDIDATES = 8
    /\ TRANSLATION_ENABLED = FALSE
    /\ TRANSLATION_PROVIDER = "none"
    /\ LIBRETRANSLATE_URL = TRUE
    /\ EXTERNAL_TRANSLATE_URL = FALSE
    /\ TRANSLATION_CACHE = {}
    /\ SlidesIdle
    /\ tcall = NoTranslate


\* -------------------------------------------------- fetcher: inputs and run

\* What a provider may answer to one request.
Responses ==
    { Ok(<<>>), Ok(<<Photo1, Photo2>>),
      Status("429"), Status("other"), Status("timeout"), Status("error") }

Retried == {"429", "timeout"}

\* A list of answers as the loop indexes it; a request the call never makes
\* has the placeholder answer Ok(<<>>).
Pad(prefix, retries) ==
    [i \in 1..retries |-> IF i <= Len(prefix) THEN prefix[i] ELSE Ok(<<>>)]

\* The answers the provider gives to the requests of one call: the provider
\* answers a request, with any of Responses, when the call given the answers
\* so far makes it.
RECURSIVE ResponseScripts(_, _, _, _)
ResponseScripts(prefix, service, count, retries) ==
    IF fetch_attempts(service, 0, retries, count, Pad(prefix, retries)).sent
           <= Len(prefix)
    THEN {Pad(prefix, retries)}
    ELSE UNION { ResponseScripts(Append(prefix, a), service, count, retries) :
                 a \in Responses }

Counts == {1}

NoFetch == [done |-> FALSE, service |-> "pexels", key |-> FALSE, recent_before |-> 0,
            count |-> 0, retries |-> 0, statuses |-> <<>>, photos |-> <<>>, sent |-> 0,
            recorded |-> 0, results |-> <<>>]

FetcherIdle ==
    /\ now = 0
    /\ API_CALL_TIMES = [s \in Services |-> EmptyBag]
    /\ api_key = [s \in Services |-> TRUE]
    /\ fcall = NoFetch
    /\ ncalls = 0

\* No operation on the embedding client yet.
NoEmbed ==
    [n |-> 0, op |-> "none", avail |-> FALSE, stored |-> FALSE, saved |-> FALSE,
     image_urls |-> <<>>, results |-> <<>>,
     prev |-> [op |-> "none", stored |-> FALSE, saved |-> FALSE]]

\* The threads that serve requests in one process.
Procs == 1..MaxProcs

\* No thread is inside can_make_api_call.
NoRate ==
    [p \in Procs |-> [pc |-> "done", service |-> "pexels", current_time |-> 0,
                      cleaned |-> EmptyBag, seen |-> 0, raced |-> FALSE, ok |-> FALSE]]

\* No call of compute_similarity yet.
NoSimilarity == [done |-> FALSE, embedding1 |-> zeros, embedding2 |-> zeros, ret |-> 0]

\* The embedding client of a serving process, left alone.
ClipIdle ==
    /\ boot = "serving"
    /\ clip_env = [deps |-> TRUE, disabled |-> FALSE]
    /\ clip_model = FALSE
    /\ load_calls = <<>>
    /\ image_embedding_cache = <<>>
    /\ image_cache_file = NoFile
    /\ ecall = NoEmbed
    /\ simcall = NoSimilarity
    /\ rcall = NoRate

MatcherIdle ==
    /\ clip_available = "False"
    /\ mcall = IdleCall
    /\ ClipIdle

\* The fetcher after earlier traffic: each window holds the timestamps of
\* the calls made so far in this minute, from none up to the provider's
\* budget.
InitFetcher ==
    /\ MatcherIdle
    /\ PresIdle
    /\ now = 0
    /\ \E n \in {0, 49, 50} : API_CALL_TIMES = [s \in Services |-> stamps(n, 0)]
    /\ api_key \in {[s \in Services |-> TRUE], [s \in Services |-> s # "pexels"]}
    /\ fcall = NoFetch
    /\ ncalls = 0

\* One call of fetch_images_from_pexels or fetch_images_from_unsplash.
Fetch ==
    /\ ncalls < MaxCalls
    /\ \E service \in Services, count \in Counts, retries \in 1..MaxRetries :
       \E responses \in ResponseScripts(<<>>, service, count, retries) :
        LET r == fetch_images_from(service, api_key[service], API_CALL_TIMES[service],
                                   now, count, retries, responses)
        IN  \* without a key or over the budget no request is made or answered
            /\ \A i \in (r.sent + 1)..retries : responses[i] = Ok(<<>>)
            /\ API_CALL_TIMES' = [API_CALL_TIMES EXCEPT ![service] = r.times]
            /\ fcall' = [done |-> TRUE, service |-> service, key |-> api_key[service],
                         recent_before |-> BagCardinality(recent(API_CALL_TIMES[service], now)),
                         count |-> count, retries |-> retries,
                         statuses |-> [i \in 1..r.sent |-> responses[i].status],
                         photos |-> IF r.sent = 0 THEN <<>>
                                    ELSE responses[r.sent].photos,
                         sent |-> r.sent,
                         recorded |-> CopiesIn(now, r.times)
                                          - CopiesIn(now, API_CALL_TIMES[service]),
                         results |-> r.results]
            /\ ncalls' = ncalls + 1
            /\ UNCHANGED <<now, api_key>>
    /\ UNCHANGED <<matcher_vars, config_vars, pres_vars, clip_vars>>

\* Time passes between calls.
Tick ==
    /\ now < MaxTicks * TickSeconds
    /\ now' = now + TickSeconds
    /\ UNCHANGED <<API_CALL_TIMES, api_key, fcall, ncalls>>
    /\ UNCHANGED <<matcher_vars, config_vars, pres_vars, clip_vars>>

NextFetcher == Fetch \/ Tick

SpecFetcher == InitFetcher /\ [][NextFetcher]_vars

\* ------------------------------------------------ matcher: inputs and call

Urls == {"u1", "u2", "u3"}

\* Candidate dicts as callers build them: with a description, with only an
\* alt text or an attribution, with a description that cannot be encoded,
\* and with no text at all.
CandPool ==
    { [url |-> "u1", description |-> "chart"],
      [url |-> "u1", description |-> "cat", attribution |-> "team"],
      [url |-> "u2", description |-> "team"],
      [url |-> "u2", description |-> Absent, alt |-> "cat"],
      [url |-> "u3", attribution |-> "chart"],
      [url |-> "u3", description |-> "toolong"],
      [url |-> "u3"] }

CandLists ==
    UNION { { s \in [1..n -> CandPool] :
                \A i, j \in 1..n : i # j => s[i].url # s[j].url } :
            n \in 0..MaxCands }

Titles == {"revenue", "market"}
Contents == {"text", "long"}
Thresholds == {0, SIMILARITY_THRESHOLD, 30}

\* The arguments of a call are drawn at the start; the call is then made.
\* The flag is already set: importing clip_client runs is_clip_available().
InitMatcher ==
    /\ ClipIdle
    /\ FetcherIdle
    /\ PresIdle
    /\ clip_available \in {"True", "False"}
    /\ \E title \in Titles, content \in Contents, cands \in CandLists,
          excl \in SUBSET Urls, thr \in Thresholds :
            mcall = [done |-> FALSE, title |-> title, content |-> content,
                     candidates |-> cands, exclude |-> excl, threshold |-> thr,
                     avail |-> FALSE, ret |-> NoneDict, embedded |-> <<>>]

\* The call of pick_best_image_for_slide on the drawn arguments.  The
\* availability check runs only once a candidate has passed the filter.
PickBest ==
    /\ ~mcall.done
    /\ \E load_ok \in BOOLEAN :
        LET avail == is_clip_available(clip_available, load_ok)
            r == pick_best_image_for_slide(mcall.title, mcall.content,
                     mcall.candidates, mcall.exclude, mcall.threshold, avail)
            checked == filter_excluded(mcall.candidates, mcall.exclude) # <<>>
        IN  /\ UNCHANGED <<fetcher_vars, config_vars, pres_vars, clip_vars>>
            /\ clip_available' = IF checked THEN clip_flag(avail) ELSE clip_available
            /\ mcall' = [mcall EXCEPT !.done = TRUE, !.avail = avail,
                                      !.ret = r.ret, !.embedded = r.embedded]

NextMatcher == PickBest

SpecMatcher == InitMatcher /\ [][NextMatcher]_vars

\* The service after import: the configuration read from the environment
\* and the model loaded or not (the minimum of candidates is read only
\* with the model).
InitService ==
    /\ ClipIdle
    /\ ucall = NoUsed
    /\ USE_IMAGE_PROMPT \in BOOLEAN
    /\ USE_STRICT_CLIP_FILTER \in BOOLEAN
    /\ CLIP_AVAILABLE \in BOOLEAN
    /\ CLIP_MIN_CANDIDATES \in IF CLIP_AVAILABLE THEN {2, 8} ELSE {8}
    /\ TRANSLATION_ENABLED \in BOOLEAN
    /\ TRANSLATION_PROVIDER = "libre"
    /\ LIBRETRANSLATE_URL = TRUE
    /\ EXTERNAL_TRANSLATE_URL = FALSE
    /\ tcall = NoTranslate
    /\ clip_available = clip_flag(CLIP_AVAILABLE)
    /\ mcall = IdleCall
    /\ now = 0
    /\ fcall = NoFetch
    /\ ncalls = 0
    /\ TRANSLATION_CACHE = {}

\* The service before a presentation: a Pexels window that is empty or one
\* call short of the budget, the Pexels key configured or missing, and a
\* user with one image in the history.
InitPresentation ==
    /\ InitService
    /\ \E n \in {0, 49} :
        API_CALL_TIMES = [s \in Services |-> IF s = "pexels" THEN stamps(n, 0) ELSE EmptyBag]
    /\ api_key \in {[s \in Services |-> TRUE], [s \in Services |-> s # "pexels"]}
    /\ image_cache = {}
    /\ used_images_table = <<UsedImage(Url("u1"), -60)>>
    /\ pc = "idle"
    /\ user_id = 0
    /\ topic = ""
    /\ history_images = {}
    /\ used_images = {}
    /\ slides_data = <<>>
    /\ prs = <<>>
    /\ scall = NoSearch

\* create_presentation up to its loop: the user's history is loaded.
StartPresentation ==
    /\ pc = "idle"
    /\ \E uid \in {0, 1}, t \in Topics, deck \in Decks :
        /\ user_id' = uid
        /\ topic' = t
        /\ slides_data' = deck
        /\ \E order \in order_by_used_date_desc(used_images_table) :
            history_images' = Range(get_used_images_for_user(uid, used_images_table,
                                        USED_IMAGES_LIMIT, order))
    /\ used_images' = {}
    /\ prs' = <<>>
    /\ pc' = "slides"
    /\ UNCHANGED <<TRANSLATION_CACHE, image_cache, used_images_table, ucall, scall, tcall>>
    /\ UNCHANGED <<matcher_vars, fetcher_vars, config_vars, clip_vars>>

\* One pass of create_presentation's loop: the slide's image is searched,
\* recorded as used and placed.  An exception out of the search ends
\* create_presentation.
AddSlide ==
    /\ pc = "slides"
    /\ Len(prs) < Len(slides_data)
    /\ \E env \in EnvsNow :
        \E slide_data \in {slides_data[Len(prs) + 1]},
           all_exclude_images \in {used_images \cup history_images},
           w \in {World(API_CALL_TIMES, image_cache, TRANSLATION_CACHE)} :
        \E r \in {IF ~USE_IMAGE_PROMPT
                  THEN search_image_legacy_mode(slide_data.title, slide_data.content,
                           topic, all_exclude_images, slide_data.search_keyword, env, w)
                  ELSE search_image_advanced_mode(slide_data.title, slide_data.content,
                           topic, all_exclude_images, slide_data.image_prompt, env, w)} :
        LET placed == r.data # NoImage /\ r.url # NoUrl
        IN  /\ API_CALL_TIMES' = r.w.times
            /\ image_cache' = r.w.image_cache
            /\ TRANSLATION_CACHE' = r.w.memo
            /\ scall' = [done |-> TRUE, title |-> slide_data.title,
                         content |-> slide_data.content,
                         hinted |-> slide_data.search_keyword # Absent,
                         topic |-> topic, exclude |-> all_exclude_images,
                         data |-> r.data, url |-> r.url, query |-> r.query,
                         raised |-> r.raised, caught |-> r.caught, log |-> r.w.log]
            /\ pc' = IF r.raised THEN "raised" ELSE pc
            /\ used_images' = IF placed THEN used_images \cup {r.url} ELSE used_images
            /\ used_images_table' =
                   IF placed THEN add_used_image(user_id, r.url, used_images_table, now)
                   ELSE used_images_table
            /\ prs' = IF r.raised THEN prs
                      ELSE Append(prs, [image |-> r.data, image_url |-> r.url,
                                        caught |-> r.caught])
    /\ UNCHANGED <<user_id, topic, history_images, slides_data, tcall, ucall>>
    /\ UNCHANGED <<matcher_vars, now, api_key, fcall, ncalls, config_vars, clip_vars>>

\* create_presentation after its loop: the file is saved and the user's
\* history trimmed.
FinishPresentation ==
    /\ pc = "slides"
    /\ Len(prs) = Len(slides_data)
    /\ pc' = "done"
    /\ \E order \in order_by_used_date_desc(used_images_table) :
        used_images_table' =
            cleanup_old_used_images(user_id, used_images_table, USED_IMAGES_LIMIT, order)
    /\ UNCHANGED <<TRANSLATION_CACHE, image_cache, user_id, topic, history_images,
                   used_images, slides_data, prs, scall, tcall, ucall>>
    /\ UNCHANGED <<matcher_vars, fetcher_vars, config_vars, clip_vars>>

NextPresentation == StartPresentation \/ AddSlide \/ FinishPresentation

SpecPresentation == InitPresentation /\ [][NextPresentation]_vars

\* ------------------------------------------- one image search on its own

\* The exclusion lists a caller passes: provider URLs and cache files.
ExcludeLists ==
    { {}, {Url("u1")}, {Url("u1"), Url("u2")},
      {Url("u3"), cache_file(<<"revenue", "professional">>)} }

\* The service with the arguments of one search drawn; the cache directory
\* may hold a file of an earlier run.
InitSearch ==
    /\ InitService
    /\ \E n \in {0, 49} :
        API_CALL_TIMES = [s \in Services |-> IF s = "pexels" THEN stamps(n, 0) ELSE EmptyBag]
    /\ api_key \in {[s \in Services |-> TRUE], [s \in Services |-> s # "pexels"]}
    /\ image_cache \in { {}, {[keywords |-> <<"revenue", "professional">>,
                               data |-> <<"jpeg", "u1">>]} }
    /\ used_images_table = <<>>
    /\ pc = "idle"
    /\ user_id = 0
    /\ topic = ""
    /\ history_images = {}
    /\ used_images = {}
    /\ slides_data = <<>>
    /\ prs = <<>>
    /\ \E slide_data \in SlidePool, t \in Topics, excl \in ExcludeLists :
        scall = [NoSearch EXCEPT !.title = slide_data.title,
                                 !.content = slide_data.content,
                                 !.hinted = slide_data.search_keyword # Absent,
                                 !.topic = t, !.exclude = excl]

\* One call of search_image_for_slide, or of the pipeline it routes to with
\* the slide's search_keyword or image_prompt.
SearchImage ==
    /\ ~scall.done
    /\ \E slide_data \in SlidePool, env \in EnvsNow :
        /\ slide_data.title = scall.title
        /\ slide_data.content = scall.content
        /\ \E w \in {World(API_CALL_TIMES, image_cache, TRANSLATION_CACHE)} :
           \E r \in {IF ~scall.hinted
                     THEN search_image_for_slide(scall.title, scall.content, scall.topic,
                                                 scall.exclude, env, w)
                     ELSE IF ~USE_IMAGE_PROMPT
                     THEN search_image_legacy_mode(scall.title, scall.content, scall.topic,
                              scall.exclude, slide_data.search_keyword, env, w)
                     ELSE search_image_advanced_mode(scall.title, scall.content, scall.topic,
                              scall.exclude, slide_data.image_prompt, env, w)} :
               /\ API_CALL_TIMES' = r.w.times
               /\ image_cache' = r.w.image_cache
               /\ TRANSLATION_CACHE' = r.w.memo
               /\ scall' = [scall EXCEPT !.done = TRUE, !.data = r.data, !.url = r.url,
                                         !.query = r.query, !.raised = r.raised,
                                         !.caught = r.caught, !.log = r.w.log]
    /\ UNCHANGED <<used_images_table, pc, user_id, topic, history_images, used_images,
                   slides_data, prs, tcall, ucall>>
    /\ UNCHANGED <<matcher_vars, now, api_key, fcall, ncalls, config_vars, clip_vars>>

NextSearch == SearchImage

SpecSearch == InitSearch /\ [][NextSearch]_vars

\* --------------------------------------------- translation: inputs and run

\* The texts translated: empty, whitespace only, a Russian and an English
\* word, bare and with whitespace around them.
TranslateTexts ==
    { <<>>, <<" ">>, <<"rynok">>, <<" ", "rynok", " ">>, <<"cat">>, <<"cat", " ">> }

TranslateContexts == { <<>>, <<"market">> }

\* The network while one text is translated.
TranslateEnv(outcome) ==
    [status |-> "200", download_ok |-> TRUE, too_large |-> {}, translation |-> outcome,
     matcher_error |-> FALSE]

\* The service with any translation configuration and an empty memo.
InitTranslate ==
    /\ MatcherIdle
    /\ FetcherIdle
    /\ SlidesIdle
    /\ USE_IMAGE_PROMPT = FALSE
    /\ USE_STRICT_CLIP_FILTER = FALSE
    /\ CLIP_AVAILABLE = FALSE
    /\ CLIP_MIN_CANDIDATES = 8
    /\ TRANSLATION_ENABLED \in BOOLEAN
    /\ TRANSLATION_PROVIDER \in {"none", "libre", "external", "google"}
    /\ LIBRETRANSLATE_URL \in BOOLEAN
    /\ EXTERNAL_TRANSLATE_URL \in BOOLEAN
    /\ TRANSLATION_CACHE = {}
    /\ tcall = NoTranslate

\* One call of translate_for_image_search.
Translate ==
    /\ \E text \in TranslateTexts, source_lang \in {None, "ru", "en"},
          context \in TranslateContexts, outcome \in TranslationOutcomes :
        \E r \in {translate_for_image_search(text, source_lang, context,
                       TranslateEnv(outcome),
                       World(API_CALL_TIMES, image_cache, TRANSLATION_CACHE))} :
            \* an outcome shows only where a request is made
            /\ r.requests = 0 => outcome = "ok"
            /\ TRANSLATION_CACHE' = r.w.memo
            /\ tcall' = [done |-> TRUE, text |-> text, source_lang |-> source_lang,
                         context |-> context, outcome |-> outcome,
                         memo |-> TRANSLATION_CACHE, ret |-> r.text,
                         requests |-> r.requests, raised |-> r.raised]
    /\ UNCHANGED <<image_cache, used_images_table, ucall, pc, user_id, topic,
                   history_images, used_images, slides_data, prs, scall>>
    /\ UNCHANGED <<matcher_vars, fetcher_vars, config_vars, clip_vars>>

NextTranslate == Translate

SpecTranslate == InitTranslate /\ [][NextTranslate]_vars

\* ------------------------------------------ embedding client: life and run

MaxEmbedOps == 3

\* The keys 1..n, oldest first.
urls(n) == [i \in 1..n |-> i]

\* The cache file an earlier process left: none, or one saved at some size up
\* to the limit.
CacheFiles == {NoFile} \cup { urls(n) : n \in {9, CACHE_MAX_ENTRIES - 1, CACHE_MAX_ENTRIES} }

\* A key that is not in the cache: keys are numbered as they are first used.
fresh(cache) == IF cache = <<>> THEN 1 ELSE cache[Len(cache)] + 1

\* The configuration the embedding client does not touch.
other_config_vars == <<USE_IMAGE_PROMPT, USE_STRICT_CLIP_FILTER, CLIP_MIN_CANDIDATES,
                       TRANSLATION_ENABLED, TRANSLATION_PROVIDER, LIBRETRANSLATE_URL,
                       EXTERNAL_TRANSLATE_URL>>

\* clip_client's globals as the variables hold them.
ClientNow ==
    Client(clip_available, clip_model, load_calls, image_embedding_cache,
           image_cache_file)

\* The globals after an operation, and the record of the operation.
ClientBecomes(cl, n, op, avail, stored, saved) ==
    /\ clip_available' = cl.available
    /\ clip_model' = cl.model
    /\ load_calls' = cl.loads
    /\ image_embedding_cache' = cl.cache
    /\ image_cache_file' = cl.file
    /\ ecall' = [n |-> n, op |-> op, avail |-> avail, stored |-> stored,
                 saved |-> saved, image_urls |-> <<>>, results |-> <<>>,
                 prev |-> [op |-> ecall.op, stored |-> ecall.stored, saved |-> ecall.saved]]

\* The same after get_image_embeddings_batch, with its argument and the dict
\* it returned.
BatchBecomes(cl, n, avail, r, image_urls) ==
    /\ clip_available' = cl.available
    /\ clip_model' = cl.model
    /\ load_calls' = cl.loads
    /\ image_embedding_cache' = cl.cache
    /\ image_cache_file' = cl.file
    /\ ecall' = [n |-> n, op |-> "get_image_embeddings_batch", avail |-> avail,
                 stored |-> r.stored, saved |-> r.saved,
                 image_urls |-> image_urls, results |-> r.results,
                 prev |-> [op |-> ecall.op, stored |-> ecall.stored, saved |-> ecall.saved]]

\* A process at its start: nothing imported, the flag and the model unset,
\* the cache empty.
InitClip ==
    /\ FetcherIdle
    /\ mcall = IdleCall
    /\ SlidesIdle
    /\ USE_IMAGE_PROMPT = FALSE
    /\ USE_STRICT_CLIP_FILTER = FALSE
    /\ CLIP_AVAILABLE = FALSE
    /\ CLIP_MIN_CANDIDATES = 8
    /\ TRANSLATION_ENABLED = FALSE
    /\ TRANSLATION_PROVIDER = "none"
    /\ LIBRETRANSLATE_URL = TRUE
    /\ EXTERNAL_TRANSLATE_URL = FALSE
    /\ TRANSLATION_CACHE = {}
    /\ tcall = NoTranslate
    /\ boot = "start"
    /\ clip_env \in [deps : BOOLEAN, disabled : BOOLEAN]
    /\ clip_available = None
    /\ clip_model = FALSE
    /\ load_calls = <<>>
    /\ image_embedding_cache = <<>>
    /\ image_cache_file \in CacheFiles
    /\ ecall = NoEmbed
    /\ simcall = NoSimilarity
    /\ rcall = NoRate

\* Outside the embedding client nothing changes.
ClipFrame ==
    UNCHANGED <<fetcher_vars, mcall, other_config_vars, pres_vars, clip_env, simcall,
                rcall>>

\* app.py imports services.clip_client: the module's pre-check calls
\* is_clip_available().
ImportClipClient ==
    /\ boot = "start"
    /\ boot' = "imported"
    /\ \E load_ok \in BOOLEAN :
        \E a \in {is_clip_available_call(ClientNow, clip_env.deps, load_ok)} :
            /\ load_ok \/ Len(a.cl.loads) > Len(load_calls)
            /\ ClientBecomes(a.cl, 0, "import", a.ret, FALSE, FALSE)
    /\ UNCHANGED CLIP_AVAILABLE
    /\ ClipFrame

\* app.py's CLIP initialisation at start-up.
AppStartup ==
    /\ boot = "imported"
    /\ boot' = "serving"
    /\ \E load_ok \in BOOLEAN, test_ok \in BOOLEAN :
        \E r \in {app_clip_initialization(ClientNow, clip_env, load_ok, test_ok)} :
            /\ load_ok \/ Len(r.cl.loads) > Len(load_calls)
            /\ test_ok \/ (load_ok /\ Len(r.cl.loads) > Len(load_calls))
            /\ CLIP_AVAILABLE' = r.ret
            /\ ClientBecomes(r.cl, 0, "startup", r.cl.available = "True", FALSE, FALSE)
    /\ ClipFrame

\* is_clip_available() while serving, called directly or by
\* get_text_embedding or the matcher.
IsClipAvailable ==
    /\ boot = "serving"
    /\ ecall.n < MaxEmbedOps
    /\ \E load_ok \in BOOLEAN :
        \E a \in {is_clip_available_call(ClientNow, clip_env.deps, load_ok)} :
            /\ load_ok \/ Len(a.cl.loads) > Len(load_calls)
            /\ ClientBecomes(a.cl, ecall.n + 1, "is_clip_available", a.ret, FALSE, FALSE)
    /\ UNCHANGED <<boot, CLIP_AVAILABLE>>
    /\ ClipFrame

\* get_image_embedding on a new key or on the oldest key of the cache.
GetImageEmbedding ==
    /\ boot = "serving"
    /\ ecall.n < MaxEmbedOps
    /\ \E load_ok \in BOOLEAN, use_cache \in BOOLEAN, fetched \in BOOLEAN :
       \E image_url \in {fresh(image_embedding_cache)} \cup
                        {image_embedding_cache[i] : i \in {1} \cap DOMAIN image_embedding_cache} :
        \E a \in {is_clip_available_call(ClientNow, clip_env.deps, load_ok)} :
        \E r \in {get_image_embedding(a, image_url, use_cache, fetched)} :
            /\ load_ok \/ Len(a.cl.loads) > Len(load_calls)
            \* the download shows only where it is made
            /\ fetched \/ (a.ret /\ ~(use_cache /\ cached(a.cl.cache, image_url)))
            /\ ClientBecomes(r.cl, ecall.n + 1, "get_image_embedding", a.ret, r.stored, r.saved)
    /\ UNCHANGED <<boot, CLIP_AVAILABLE>>
    /\ ClipFrame

\* How the download of one URL of a batch ends: status 200, another status,
\* or an exception.
Downloads == {"200", "status", "raise"}

\* get_image_embeddings_batch on one or two new keys, or on the oldest key
\* of the cache and a new one.
GetImageEmbeddingsBatch ==
    /\ boot = "serving"
    /\ ecall.n < MaxEmbedOps
    /\ \E load_ok \in BOOLEAN, use_cache \in BOOLEAN, encode_ok \in BOOLEAN :
       \E image_urls \in
            { <<fresh(image_embedding_cache)>>,
              <<fresh(image_embedding_cache), fresh(image_embedding_cache) + 1>> } \cup
            { <<image_embedding_cache[i], fresh(image_embedding_cache)>> :
                i \in {1} \cap DOMAIN image_embedding_cache } :
        \E responses \in [Range(image_urls) -> Downloads] :
        \E a \in {is_clip_available_call(ClientNow, clip_env.deps, load_ok)} :
        \E r \in {get_image_embeddings_batch(a, image_urls, use_cache, responses,
                                             encode_ok)} :
            /\ load_ok \/ Len(a.cl.loads) > Len(load_calls)
            /\ a.ret \/ (encode_ok /\ \A url \in Range(image_urls) : responses[url] = "200")
            /\ BatchBecomes(r.cl, ecall.n + 1, a.ret, r, image_urls)
    /\ UNCHANGED <<boot, CLIP_AVAILABLE>>
    /\ ClipFrame

\* clear_cache()
ClearCache ==
    /\ boot = "serving"
    /\ ecall.n < MaxEmbedOps
    /\ \E cl \in {clear_cache(ClientNow)} :
        ClientBecomes(cl, ecall.n + 1, "clear_cache", clip_available = "True", FALSE, TRUE)
    /\ UNCHANGED <<boot, CLIP_AVAILABLE>>
    /\ ClipFrame

NextClip ==
    \/ ImportClipClient
    \/ AppStartup
    \/ IsClipAvailable
    \/ GetImageEmbedding
    \/ GetImageEmbeddingsBatch
    \/ ClearCache

SpecClip == InitClip /\ [][NextClip]_vars

\* ---------------------------------------- used-images table: inputs and run

MaxRows == 3

MaxSeconds == 2

\* The URLs recorded, in the order they are recorded.
UsedUrls == <<Url("u1"), Url("u2"), Url("u3"), Url("u4"), Url("u5")>>

\* A database with no row for the user, at second 0.
InitUsedImages ==
    /\ MatcherIdle
    /\ FetcherIdle
    /\ PresIdle

\* Outside the table and the clock nothing changes.
UsedImagesFrame ==
    /\ UNCHANGED <<matcher_vars, config_vars, clip_vars>>
    /\ UNCHANGED <<API_CALL_TIMES, api_key, fcall, ncalls>>
    /\ UNCHANGED <<TRANSLATION_CACHE, image_cache, pc, user_id, topic, history_images,
                   used_images, slides_data, prs, scall, tcall>>

\* A second passes.
Second ==
    /\ now < MaxSeconds
    /\ now' = now + 1
    /\ UNCHANGED <<used_images_table, ucall>>
    /\ UsedImagesFrame

\* add_used_image(user_id, image_url, query) in the current second.
AddUsedImage ==
    /\ ucall.recorded < MaxRows
    /\ \E uid \in {0, 1} :
        /\ used_images_table' = add_used_image(uid, UsedUrls[ucall.recorded + 1],
                                               used_images_table, now)
        /\ ucall' = [op |-> "add_used_image", uid |-> uid, n |-> 0,
                     before |-> used_images_table, ret |-> <<>>,
                     recorded |-> ucall.recorded + 1]
    /\ UNCHANGED now
    /\ UsedImagesFrame

\* get_used_images_for_user(user_id, limit)
GetUsedImagesForUser ==
    /\ \E uid \in {0, 1}, limit \in 0..MaxRows :
       \E order \in order_by_used_date_desc(used_images_table) :
        ucall' = [op |-> "get_used_images_for_user", uid |-> uid, n |-> limit,
                  before |-> used_images_table,
                  ret |-> get_used_images_for_user(uid, used_images_table, limit, order),
                  recorded |-> ucall.recorded]
    /\ UNCHANGED <<now, used_images_table>>
    /\ UsedImagesFrame

\* cleanup_old_used_images(user_id, keep_count)
CleanupOldUsedImages ==
    /\ \E uid \in {0, 1}, keep_count \in 0..MaxRows :
       \E order \in order_by_used_date_desc(used_images_table) :
        /\ used_images_table' =
               cleanup_old_used_images(uid, used_images_table, keep_count, order)
        /\ ucall' = [op |-> "cleanup_old_used_images", uid |-> uid, n |-> keep_count,
                     before |-> used_images_table, ret |-> <<>>,
                     recorded |-> ucall.recorded]
    /\ UNCHANGED now
    /\ UsedImagesFrame

NextUsedImages ==
    \/ Second
    \/ AddUsedImage
    \/ GetUsedImagesForUser
    \/ CleanupOldUsedImages

SpecUsedImages == InitUsedImages /\ [][NextUsedImages]_vars

\* ------------------------------------------- similarity: inputs and call

MaxCoord == 5

\* The arguments of compute_similarity: vectors, normalized (norm 5) or not,
\* and None.
Embeddings == {NoEmbedding} \cup { <<x, y>> : x, y \in -MaxCoord..MaxCoord }

\* The arguments of a call are drawn at the start; the call is then made.
InitSimilarity ==
    /\ FetcherIdle
    /\ PresIdle
    /\ clip_available = "False"
    /\ mcall = IdleCall
    /\ boot = "serving"
    /\ clip_env = [deps |-> TRUE, disabled |-> FALSE]
    /\ clip_model = FALSE
    /\ load_calls = <<>>
    /\ image_embedding_cache = <<>>
    /\ image_cache_file = NoFile
    /\ ecall = NoEmbed
    /\ rcall = NoRate
    /\ \E embedding1 \in Embeddings, embedding2 \in Embeddings :
        simcall = [NoSimilarity EXCEPT !.embedding1 = embedding1,
                                       !.embedding2 = embedding2]

\* The call of compute_similarity on the drawn arguments.
ComputeSimilarity ==
    /\ ~simcall.done
    /\ simcall' = [simcall EXCEPT !.done = TRUE,
                       !.ret = compute_similarity(simcall.embedding1, simcall.embedding2)]
    /\ UNCHANGED <<boot, clip_env, clip_model, load_calls, image_embedding_cache,
                   image_cache_file, ecall, rcall>>
    /\ UNCHANGED <<matcher_vars, fetcher_vars, config_vars, pres_vars>>

NextSimilarity == ComputeSimilarity

SpecSimilarity == InitSimilarity /\ [][NextSimilarity]_vars

\* ------------------------------ can_make_api_call under concurrent threads

rate_limit_reached_over(service, times) ==
    BagCardinality(times) > MAX_CALLS_PER_MINUTE[service]

\* if len(API_CALL_TIMES[service]) >= MAX_CALLS_PER_MINUTE[service]
rate_limit_reached(service, times) ==
    BagCardinality(times) >= MAX_CALLS_PER_MINUTE[service]

\* Two or more request threads are about to call can_make_api_call, each
\* for a provider; the window of a provider is full, has one slot left, or
\* two.
InitRate ==
    /\ PresIdle
    /\ clip_available = "False"
    /\ mcall = IdleCall
    /\ boot = "serving"
    /\ clip_env = [deps |-> TRUE, disabled |-> FALSE]
    /\ clip_model = FALSE
    /\ load_calls = <<>>
    /\ image_embedding_cache = <<>>
    /\ image_cache_file = NoFile
    /\ ecall = NoEmbed
    /\ simcall = NoSimilarity
    /\ now = 0
    /\ \E n \in [Services -> {48, 49, 50}] :
        API_CALL_TIMES = [s \in Services |-> stamps(n[s], 0)]
    /\ api_key = [s \in Services |-> TRUE]
    /\ fcall = NoFetch
    /\ ncalls = 0
    /\ \E service \in [Procs -> Services] :
        rcall = [p \in Procs |-> [NoRate[p] EXCEPT !.pc = "start", !.service = service[p]]]

RateFrame ==
    /\ UNCHANGED <<api_key, fcall, ncalls>>
    /\ UNCHANGED <<boot, clip_env, clip_model, load_calls, image_embedding_cache,
                   image_cache_file, ecall, simcall>>
    /\ UNCHANGED <<matcher_vars, config_vars, pres_vars>>

\* The threads that are inside can_make_api_call for the provider.
Inside(service) ==
    { q \in Procs : rcall[q].service = service /\ rcall[q].pc \in {"assign", "check", "append"} }

\* current_time = time.time() and the list comprehension: the thread reads
\* the window and builds the list of its recent timestamps.  raced tells
\* that the call ran while another call for the same provider was running.
RateFilter(p) ==
    /\ rcall[p].pc = "start"
    /\ rcall' = [q \in Procs |->
            IF q = p
            THEN [rcall[p] EXCEPT !.pc = "assign", !.current_time = now,
                      !.cleaned = recent(API_CALL_TIMES[rcall[p].service], now),
                      !.raced = Inside(rcall[p].service) # {}]
            ELSE IF q \in Inside(rcall[p].service) THEN [rcall[q] EXCEPT !.raced = TRUE]
            ELSE rcall[q]]
    /\ UNCHANGED <<now, API_CALL_TIMES>>
    /\ RateFrame

\* API_CALL_TIMES[service] = [...]: the new list replaces the window.
RateAssign(p) ==
    /\ rcall[p].pc = "assign"
    /\ API_CALL_TIMES' = [API_CALL_TIMES EXCEPT ![rcall[p].service] = rcall[p].cleaned]
    /\ rcall' = [rcall EXCEPT ![p].pc = "check"]
    /\ UNCHANGED now
    /\ RateFrame

\* The check of the limit on the window as it is now: return False, or go
\* on to record the call.
RateCheck(p) ==
    /\ rcall[p].pc = "check"
    /\ LET service == rcall[p].service
           reached == rate_limit_reached(service, API_CALL_TIMES[service])
       IN  rcall' = [rcall EXCEPT
                ![p].pc = IF reached THEN "done" ELSE "append",
                ![p].seen = BagCardinality(API_CALL_TIMES[service])]
    /\ UNCHANGED <<now, API_CALL_TIMES>>
    /\ RateFrame

\* API_CALL_TIMES[service].append(current_time); return True
RateAppend(p) ==
    /\ rcall[p].pc = "append"
    /\ API_CALL_TIMES' = [API_CALL_TIMES EXCEPT
            ![rcall[p].service] = @ (+) stamps(1, rcall[p].current_time)]
    /\ rcall' = [rcall EXCEPT ![p].pc = "done", ![p].ok = TRUE]
    /\ UNCHANGED now
    /\ RateFrame

\* Time passes while the threads run.
RateTick ==
    /\ now < MaxTicks * TickSeconds
    /\ now' = now + TickSeconds
    /\ UNCHANGED <<API_CALL_TIMES, rcall>>
    /\ RateFrame

NextRate ==
    \/ \E p \in Procs : RateFilter(p)
    \/ \E p \in Procs : RateAssign(p)
    \/ \E p \in Procs : RateCheck(p)
    \/ \E p \in Procs : RateAppend(p)
    \/ RateTick

SpecRate == InitRate /\ [][NextRate]_vars

\* ----------------------------------------------------- matcher properties

\* The positions of the call's candidates whose URL is not excluded.
Allowed == { i \in 1..Len(mcall.candidates) :
                mcall.candidates[i].url \notin mcall.exclude }

\* The call's slide-context embedding (None when it could not be computed).
CallContextEmbedding ==
    get_text_embedding(slide_context(mcall.title, mcall.content), mcall.avail)

\* The similarity of a candidate dict to the call's slide context.
CallScore(c) ==
    compute_similarity(CallContextEmbedding,
        get_text_embedding(candidate_description(c, mcall.title), mcall.avail))

\* C3: pick_best never returns a candidate whose URL is in the exclusion
\* list, with or without the model, and returns None when every candidate
\* is excluded.
C3_NeverExcluded ==
    mcall.done =>
        /\ mcall.ret # NoneDict => mcall.ret.url \notin mcall.exclude
        /\ Allowed = {} => mcall.ret = NoneDict

C3_Witness ==
    /\ mcall.done
    /\ mcall.ret # NoneDict
    /\ Len(mcall.candidates) > 0
    /\ mcall.candidates[1].url \in mcall.exclude

\* C4: with threshold 0.0 (soft mode) a call that has a non-excluded
\* candidate returns a candidate, whatever the scores.
C4_SoftNeverNone ==
    (mcall.done /\ mcall.threshold = 0 /\ Allowed # {}) => mcall.ret # NoneDict

C4_Witness ==
    /\ mcall.done /\ mcall.threshold = 0 /\ mcall.avail
    /\ CallContextEmbedding # NoEmbedding
    /\ Allowed # {}
    /\ \A i \in Allowed : CallScore(mcall.candidates[i]) = 0
    /\ mcall.ret # NoneDict

\* The highest similarity among the non-excluded candidates is below the
\* call's threshold.
TopBelowThreshold ==
    /\ Allowed # {}
    /\ \A i \in Allowed : CallScore(mcall.candidates[i]) < mcall.threshold

C6_UnavailableFirst ==
    (mcall.done /\ ~mcall.avail /\ Allowed # {}) =>
        /\ \E i \in Allowed :
              /\ \A j \in Allowed : i <= j
              /\ mcall.ret = mcall.candidates[i]
        /\ mcall.embedded = <<>>

C6_Witness ==
    /\ mcall.done /\ ~mcall.avail /\ mcall.threshold > 0
    /\ Allowed # {} /\ 1 \notin Allowed
    /\ mcall.ret # NoneDict

\* C7: with the model available, no non-excluded candidate scores strictly
\* higher than the candidate returned.
C7_ReturnsHighest ==
    (mcall.done /\ mcall.avail /\ mcall.ret # NoneDict) =>
        \A i \in Allowed : CallScore(mcall.candidates[i]) <= CallScore(mcall.ret)

C7_Witness ==
    /\ mcall.done /\ mcall.avail /\ mcall.ret # NoneDict
    /\ 1 \in Allowed
    /\ CallScore(mcall.candidates[1]) < CallScore(mcall.ret)

\* ----------------------------------------------------- fetcher properties

\* C9: a fetch that finds the provider's window holding at least the budget
\* of timestamps younger than 60 seconds returns an empty list and sends no
\* request.
C9_WindowBeforeNetwork ==
    (fcall.done /\ fcall.recent_before >= MAX_CALLS_PER_MINUTE[fcall.service]) =>
        /\ fcall.results = <<>>
        /\ fcall.sent = 0

C9_Witness ==
    /\ fcall.done /\ fcall.key /\ fcall.retries > 0
    /\ fcall.recent_before >= MAX_CALLS_PER_MINUTE[fcall.service]
    /\ fcall.sent = 0

\* C10 as stated: a fetch call records in the provider's window one timestamp
\* for every request it sends, whatever the answers.
C10_EveryRequestRecorded ==
    fcall.done => fcall.recorded = fcall.sent

\* ------------------------------------------------ image search properties

\* C1 as stated: within one create_presentation run, the picture placed on a
\* later slide is never a picture already placed on an earlier slide.
C1_NoImageTwice ==
    \A i, j \in 1..Len(prs) :
        (i < j /\ prs[i].image # NoImage /\ prs[j].image # NoImage) =>
            prs[i].image # prs[j].image

\* C2: the image_url a pipeline returns is never a member of the
\* exclude_images passed into the call.
C2_UrlNotExcluded ==
    (scall.done /\ scall.url # NoUrl) => scall.url \notin scall.exclude

\* The provider's first hit for the slide is excluded and the call still
\* returns an image.
C2_Witness ==
    /\ scall.done /\ ~scall.raised
    /\ scall.title = "revenue" /\ Url("u1") \in scall.exclude
    /\ scall.url # NoUrl /\ scall.data # NoImage

\* C8: no exception leaves a pipeline: every call returns either an image,
\* its URL and the query used, or (None, None, None), and generation goes on
\* to the next slide until every slide is built.
C8_NoExceptionReachesCaller ==
    /\ pc # "raised"
    /\ scall.done =>
          /\ ~scall.raised
          /\ \/ scall.data # NoImage /\ scall.url # NoUrl /\ scall.query # NoQuery
             \/ scall.data = NoImage /\ scall.url = NoUrl /\ scall.query = NoQuery
    /\ pc = "done" => Len(prs) = Len(slides_data)

\* The matcher stage of the first slide raised and the slide got no image;
\* the second slide was built with one.
C8_Witness ==
    /\ pc = "done" /\ Len(prs) = 2
    /\ prs[1].caught /\ prs[1].image = NoImage
    /\ prs[2].image # NoImage

\* ------------------------------------------------------ retry properties

\* The requests of the call before the last one were all answered 429.
Only429Before == \A i \in 1..(fcall.sent - 1) : fcall.statuses[i] = "429"

\* The candidates a 200 answer with the call's photos gives.
ExpectedResults ==
    [i \in 1..Min(fcall.count, Len(fcall.photos)) |->
        unified(fcall.service, fcall.photos[i])]

C12_NoRetry_Original ==
    fcall.done =>
        \A i \in 1..fcall.sent :
            fcall.statuses[i] \in {"timeout", "other", "error"} =>
                i = fcall.sent /\ fcall.results = <<>>

\* C12: a request that gets a status other than 200 and 429, or fails with
\* an exception other than a timeout, is the last request of the call, which
\* returns empty; a request that times out is the last one, with an empty
\* return, only when it was the last of the retries requests allowed.
C12_NoRetry ==
    fcall.done =>
        \A i \in 1..fcall.sent :
            /\ fcall.statuses[i] \in {"other", "error"} =>
                  i = fcall.sent /\ fcall.results = <<>>
            /\ (fcall.statuses[i] = "timeout" /\ i = fcall.retries) =>
                  i = fcall.sent /\ fcall.results = <<>>

\* An answer with another status ended a call that had requests left.
C12_Witness ==
    /\ fcall.done /\ fcall.retries = 2 /\ fcall.sent = 1
    /\ fcall.statuses = <<"other">> /\ fcall.results = <<>>

\* --------------------------------------------------- translation properties

\* The source language the call works with: the one given, or the detected.
CallLang ==
    IF tcall.source_lang = None THEN detect_language(strip(tcall.text))
    ELSE tcall.source_lang

\* The call is one where nothing is to be translated: translation disabled,
\* the provider 'none', or the text already in the target language.
NothingToTranslate ==
    \/ ~TRANSLATION_ENABLED
    \/ TRANSLATION_PROVIDER = "none"
    \/ CallLang = TRANSLATION_TARGET_LANG

\* C13 as stated: with translation disabled, the provider 'none' or the
\* source language equal to the target, translate_for_image_search returns
\* the text it was given, whitespace included, and makes no network call.
C13_Unchanged_Original ==
    (tcall.done /\ NothingToTranslate) => (tcall.ret = tcall.text /\ tcall.requests = 0)

\* C13: with translation disabled, the provider 'none' or the source language
\* equal to the target, translate_for_image_search returns the text it was
\* given with leading and trailing whitespace removed (the empty text for an
\* empty or whitespace-only one) and makes no network call.
C13_Unchanged ==
    (tcall.done /\ NothingToTranslate)
        => (tcall.ret = strip(tcall.text) /\ tcall.requests = 0)

\* A Russian text with whitespace around it comes back stripped and
\* untranslated under the provider 'none' with translation enabled.
C13_Witness ==
    /\ tcall.done
    /\ TRANSLATION_ENABLED
    /\ TRANSLATION_PROVIDER = "none"
    /\ LIBRETRANSLATE_URL
    /\ tcall.text = <<" ", "rynok", " ">>
    /\ CallLang = "ru"
    /\ tcall.ret = <<"rynok">>
    /\ tcall.requests = 0

\* The call asked a backend and the backend failed.
BackendFailed == tcall.done /\ tcall.requests > 0 /\ tcall.outcome # "ok"

Loaded == { i \in DOMAIN load_calls : load_calls[i] = "loaded" }

\* C15: over any sequence of import, start-up, availability checks and
\* embedding calls, the embedding model is loaded at most once in a process.
C15_LoadedAtMostOnce == Cardinality(Loaded) <= 1

\* C16: once the flag says the model is unavailable it stays so, and no step
\* calls clip.load again.
C16_StaysUnavailable ==
    [][clip_available = "False"
        => (clip_available' = "False" /\ load_calls' = load_calls)]_vars

\* C17: the image-embedding cache and its copy on disk never hold more than
\* CACHE_MAX_ENTRIES entries.
C17_CacheBounded ==
    /\ Len(image_embedding_cache) <= CACHE_MAX_ENTRIES
    /\ image_cache_file # NoFile => Len(image_cache_file) <= CACHE_MAX_ENTRIES

\* C18: get_image_embedding does not save the cache on every write: of two
\* consecutive calls that each store a new key, at most one saves the file.
C18_NotEveryWrite ==
    ~ /\ ecall.op = "get_image_embedding" /\ ecall.stored /\ ecall.saved
      /\ ecall.prev.op = "get_image_embedding" /\ ecall.prev.stored /\ ecall.prev.saved

\* ------------------------------------------------ used-images properties

\* The n rows recorded last, in the order they were recorded.
MostRecent(table, n) == SubSeq(table, Max(1, Len(table) - n + 1), Len(table))

\* The URLs of the rows, the row recorded last first.
MostRecentFirst(table) == [i \in 1..Len(table) |-> table[Len(table) + 1 - i].image_url]

\* C19: after cleanup_old_used_images(user, keep_n) the user's rows are
\* exactly the keep_n recorded last (all of them if fewer), and
\* get_used_images_for_user with a limit that covers the rows returns their
\* URLs, the one recorded last first.
C19_KeepsMostRecent ==
    /\ (ucall.op = "cleanup_old_used_images" /\ ucall.uid = 1)
          => used_images_table = MostRecent(ucall.before, ucall.n)
    /\ (ucall.op = "get_used_images_for_user" /\ ucall.uid = 1
          /\ ucall.n >= Len(used_images_table))
          => ucall.ret = MostRecentFirst(used_images_table)

\* --------------------------------------------------- similarity properties

\* The call's computation raises: an argument is not a vector.
SimilarityRaises == simcall.embedding1 = NoEmbedding \/ simcall.embedding2 = NoEmbedding

\* The vector has norm 1 (5 on the model's scale).
Normalized(embedding) == embedding # NoEmbedding /\ dot(embedding, embedding) = 25

\* C20: compute_similarity returns a value in [0, 1] (0 to 100 on the model's
\* scale): 0 for a negative dot product, 1 for a dot product above 1, 0.0
\* when the computation raises; and 1.0 when both arguments are the same
\* normalized vector.
C20_SimilarityRange ==
    simcall.done =>
        /\ simcall.ret \in 0..100
        /\ SimilarityRaises => simcall.ret = 0
        /\ ~SimilarityRaises =>
            /\ dot(simcall.embedding1, simcall.embedding2) < 0 => simcall.ret = 0
            /\ 4 * dot(simcall.embedding1, simcall.embedding2) > 100 => simcall.ret = 100
        /\ (Normalized(simcall.embedding1) /\ simcall.embedding1 = simcall.embedding2)
              => simcall.ret = 100

\* A call on the same normalized vector twice, returning 1.0.
C20_Witness ==
    /\ simcall.done
    /\ simcall.embedding1 = <<3, 4>>
    /\ simcall.embedding2 = <<3, 4>>
    /\ simcall.ret = 100

\* C27: whenever pick_best returns a candidate, the result equals one of
\* the input candidate dicts (same keys and values), whether or not the
\* semantic scoring ran; with a single non-excluded candidate that passes,
\* the result equals that candidate.
C27_ReturnsInputCandidate ==
    (mcall.done /\ mcall.ret # NoneDict) =>
        /\ \E i \in 1..Len(mcall.candidates) :
               /\ DOMAIN mcall.ret = DOMAIN mcall.candidates[i]
               /\ \A k \in DOMAIN mcall.ret : mcall.ret[k] = mcall.candidates[i][k]
        /\ Cardinality(Allowed) = 1 =>
               \A i \in Allowed :
                   /\ DOMAIN mcall.ret = DOMAIN mcall.candidates[i]
                   /\ \A k \in DOMAIN mcall.ret : mcall.ret[k] = mcall.candidates[i][k]

\* ------------------------------------------- properties of the two pipelines

\* The trace of the last search holds an entry of this kind.
Logged(op) == \E i \in 1..Len(scall.log) : scall.log[i].op = op

\* The entries of one kind, in order.
Entries(op) == SelectSeq(scall.log, LAMBDA e : e.op = op)

\* C21: in both pipelines, when the candidate pool fetched for a slide is
\* not empty and smaller than CLIP_MIN_CANDIDATES, pick_best is not invoked
\* for that slide and the next thing the pipeline does is the keyword-search
\* fallback.
C21_SmallPoolSkipsRanking ==
    \A i \in 1..Len(scall.log) :
        /\ scall.log[i].op = "candidates"
        /\ scall.log[i].arg > 0
        /\ scall.log[i].arg < CLIP_MIN_CANDIDATES
        => /\ ~Logged("pick_best")
           /\ i < Len(scall.log)
           /\ scall.log[i + 1].op = "fallback"

C21_Witness ==
    /\ scall.done
    /\ CLIP_AVAILABLE
    /\ CLIP_MIN_CANDIDATES = 2
    /\ Logged("candidates") /\ Entries("candidates")[1].arg = 1
    /\ Logged("fallback")
    /\ ~Logged("pick_best")

\* The similarity pick_best computes for a candidate of a logged call.
RankScore(e, c) ==
    compute_similarity(
        get_text_embedding(slide_context(e.arg.title, e.arg.content), TRUE),
        get_text_embedding(candidate_description(c, e.arg.title), TRUE))

\* The candidates of a logged call of pick_best that are not excluded.
RankAllowed(e) == filter_excluded(e.arg.candidates, scall.exclude)

\* A logged call of pick_best that ranked its candidates: it did not raise,
\* some candidate is not excluded and the slide context was embedded.
Ranked(e) ==
    /\ e.op = "pick_best"
    /\ ~e.arg.raised
    /\ RankAllowed(e) # <<>>
    /\ get_text_embedding(slide_context(e.arg.title, e.arg.content), TRUE) # NoEmbedding

\* Strict mode, and the best similarity among the candidates ranked is
\* below the threshold.
StrictBelowThreshold(e) ==
    /\ USE_STRICT_CLIP_FILTER
    /\ Ranked(e)
    /\ \A i \in 1..Len(RankAllowed(e)) :
           RankScore(e, RankAllowed(e)[i]) < CLIP_SIMILARITY_THRESHOLD

\* The last entry of the trace is the keyword search's find: a cache file,
\* or a download that succeeded.
FoundByKeywordSearch ==
    /\ Logged("fallback")
    /\ LET last == scall.log[Len(scall.log)] IN
       \/ last.op = "cached" /\ last.arg = scall.url
       \/ last.op = "download" /\ last.arg.ok /\ last.arg.url = scall.url

\* C22 as stated: in strict mode with the best similarity below the
\* threshold the pipeline returns (None, None, None) and a fallback keyword
\* search is made.
C22_StrictFallback_Original ==
    \A i \in 1..Len(scall.log) :
        StrictBelowThreshold(scall.log[i])
        => /\ scall.data = NoImage /\ scall.url = NoUrl /\ scall.query = NoQuery
           /\ Logged("fallback")

\* C22: in strict mode, when the best similarity among the candidates is
\* below the threshold, pick_best returns None, no candidate is downloaded,
\* a fallback keyword search is made for that slide, and the pipeline
\* returns what that search finds: (None, None, None) only when it finds
\* no image.
C22_StrictFallback ==
    \A i \in 1..Len(scall.log) :
        StrictBelowThreshold(scall.log[i])
        => /\ scall.log[i].arg.ret = NoneDict
           /\ i < Len(scall.log) /\ scall.log[i + 1].op = "fallback"
           /\ ~scall.raised
           /\ scall.url # NoUrl <=> FoundByKeywordSearch
           /\ scall.url = NoUrl => scall.data = NoImage /\ scall.query = NoQuery

C22_Witness ==
    /\ scall.done
    /\ \E i \in 1..Len(scall.log) : StrictBelowThreshold(scall.log[i])
    /\ Logged("fallback")
    /\ scall.url # NoUrl

\* The place of an attempt in the keyword search's list: the primary
\* (intelligent) query, the search keyword or its translation, the slide
\* title, the presentation topic.
AttemptRank(attempt_name) ==
    CASE attempt_name = "Intelligent" -> 1
      [] attempt_name \in {"Translated keyword", "Original keyword"} -> 2
      [] attempt_name = "Slide title" -> 3
      [] attempt_name = "Main topic" -> 4

\* The attempts the last search made, in the order it made them.
AttemptsMade == [i \in 1..Len(Entries("attempt")) |-> Entries("attempt")[i].arg]

\* An entry of the trace that ends the keyword search: an image was found.
Yields(e) == e.op = "cached" \/ (e.op = "download" /\ e.arg.ok)

\* The keyword search tried this text under this name.
Tried(query, attempt_name) ==
    \E i \in 1..Len(AttemptsMade) : AttemptsMade[i] = Attempt(query, attempt_name)

\* C23: when the embedding model is unavailable, both pipelines run the
\* keyword-search attempts in the fixed order primary query, translated
\* variant, slide title, presentation topic; they stop at the first attempt
\* that yields an image not in the exclusion list, and return
\* (None, None, None) only after every attempt of the list has been tried.
C23_FixedAttemptOrder ==
    (scall.done /\ ~CLIP_AVAILABLE /\ ~scall.raised) =>
        /\ scall.log # <<>>
        /\ Logged("fallback") /\ ~Logged("candidates") /\ ~Logged("pick_best")
        /\ \A i, j \in 1..Len(AttemptsMade) :
               i < j => AttemptRank(AttemptsMade[i].name) < AttemptRank(AttemptsMade[j].name)
        /\ \A i \in 1..(Len(scall.log) - 1) : ~Yields(scall.log[i])
        /\ scall.url # NoUrl =>
               /\ Yields(scall.log[Len(scall.log)])
               /\ scall.url \notin scall.exclude
        /\ scall.url = NoUrl =>
               /\ scall.data = NoImage /\ scall.query = NoQuery
               /\ ~Yields(scall.log[Len(scall.log)])
               /\ Len(AttemptsMade) >= 1 /\ AttemptsMade[1].name = "Intelligent"
               /\ LET english_query == AttemptsMade[1].query
                      keyword == Entries("fallback")[1].arg
                  IN  /\ (keyword # <<>> /\ ~CYRILLIC_RE(keyword) /\ keyword # english_query)
                          => Tried(keyword, "Original keyword")
                      /\ (scall.title # "" /\ words(scall.title) # english_query)
                          => Tried(words(scall.title), "Slide title")
                      /\ (scall.topic # ""
                            /\ \A i \in 1..Min(3, Len(AttemptsMade)) :
                                   AttemptsMade[i].query # words(scall.topic))
                          => Tried(words(scall.topic), "Main topic")

C23_Witness ==
    /\ scall.done /\ ~CLIP_AVAILABLE /\ ~scall.raised
    /\ Len(AttemptsMade) = 4
    /\ scall.url = NoUrl

\* ------------------------------------------- properties of batch embeddings

\* C24: get_image_embeddings_batch(urls) returns a mapping with a key for
\* every input URL, whose value is that URL's embedding or None, for every
\* mix of cache hits, download exceptions, non-200 responses and inference
\* errors.
C24_KeyForEveryUrl ==
    ecall.op = "get_image_embeddings_batch" =>
        /\ DOMAIN ecall.results = Range(ecall.image_urls)
        /\ \A url \in DOMAIN ecall.results : ecall.results[url] \in {Embedding, "None"}

\* ------------------------------------------ properties of oversized pictures

\* The trace entry i is a download that was rejected because the picture is
\* over the size limit.
Oversized(i) == scall.log[i].op = "download" /\ scall.log[i].arg.too_large

\* The trace entry i is the download of the candidate pick_best selected
\* from a list that holds another candidate that is not excluded.
SelectedOfSeveral(i) ==
    /\ i > 1
    /\ scall.log[i].op = "download"
    /\ scall.log[i - 1].op = "pick_best"
    /\ \E k \in 1..Len(RankAllowed(scall.log[i - 1])) :
           RankAllowed(scall.log[i - 1])[k].url # scall.log[i].arg.url

\* C25 as stated: when the download of the selected candidate is rejected
\* for its size, the next thing tried is another candidate of the same list.
C25_NextCandidate_Original ==
    \A i \in 1..Len(scall.log) :
        (Oversized(i) /\ SelectedOfSeveral(i))
        => /\ i < Len(scall.log)
           /\ scall.log[i + 1].op = "download"
           /\ \E k \in 1..Len(RankAllowed(scall.log[i - 1])) :
                  RankAllowed(scall.log[i - 1])[k].url = scall.log[i + 1].arg.url
           /\ scall.log[i + 1].arg.url # scall.log[i].arg.url

\* C25: when the download of the selected candidate is rejected because the
\* image exceeds the size limit, that image is not used and the engine
\* leaves the candidate list for its next search attempt: the keyword search
\* after the CLIP-selected candidate, the next query inside the keyword
\* search; no other candidate of the same list is downloaded.
C25_NextAttempt ==
    \A i \in 1..Len(scall.log) :
        Oversized(i)
        => /\ ~scall.log[i].arg.ok
           /\ scall.url # scall.log[i].arg.url
           /\ i < Len(scall.log) => scall.log[i + 1].op \in {"fallback", "attempt"}
           /\ (i > 1 /\ scall.log[i - 1].op = "pick_best")
                  => i < Len(scall.log) /\ scall.log[i + 1].op = "fallback"

C25_Witness ==
    /\ scall.done
    /\ \E i \in 1..Len(scall.log) :
        /\ Oversized(i) /\ SelectedOfSeveral(i)
        /\ scall.log[i + 1].op = "fallback"
    /\ \E j \in 1..Len(scall.log) :
        /\ Oversized(j) /\ scall.log[j - 1].op = "attempt"
        /\ j < Len(scall.log) /\ scall.log[j + 1].op = "attempt"

\* ------------------------------------- properties of the query translation

\* The requests the legacy pipeline's query-building step sent to a
\* translation backend.
LegacyQueryRequests ==
    SelectSeq(scall.log, LAMBDA e : e.op = "translate" /\ e.arg.context[1] = "legacy_search")

\* The slide's title and content are detected as English.
SlideEnglish == detect_language(words(scall.title) \o words(scall.content)) = "en"

\* C26 as stated: the legacy pipeline sends its search query to a
\* translation backend only when the query text itself is detected as
\* non-English.
C26_TranslateNonEnglish_Original ==
    (scall.done /\ ~USE_IMAGE_PROMPT) =>
        \A i \in 1..Len(LegacyQueryRequests) :
            detect_language(LegacyQueryRequests[i].arg.text) # "en"

\* C26: the legacy pipeline's query-building step sends the search query
\* (search_keyword or extracted keywords) to a translation backend only
\* when the slide's title and content are detected as non-English; when
\* they are detected as English the query goes to the image search
\* untranslated and that step makes no backend call.
C26_TranslateNonEnglish ==
    (scall.done /\ ~USE_IMAGE_PROMPT) =>
        /\ LegacyQueryRequests # <<>> => ~SlideEnglish
        /\ Len(LegacyQueryRequests) <= 1
        /\ \A i \in 1..Len(LegacyQueryRequests) :
               LegacyQueryRequests[i].arg.text = strip(Entries("query")[1].arg)
        /\ (SlideEnglish /\ scall.url # NoUrl) => scall.query = strip(Entries("query")[1].arg)
        /\ (SlideEnglish /\ Logged("fallback"))
               => Entries("fallback")[1].arg = strip(Entries("query")[1].arg)

C26_Witness ==
    /\ scall.done /\ ~USE_IMAGE_PROMPT
    /\ scall.title = "rynok"
    /\ Len(LegacyQueryRequests) = 1
    /\ LegacyQueryRequests[1].arg.text = <<"chart">>

\* ------------------------------------- properties of the unlocked windows

\* The timestamps of a provider's window that lie in the last 60 seconds.
InWindow(service) == BagCardinality(recent(API_CALL_TIMES[service], now))

\* The threads whose call for the provider was admitted.
Admitted(service) == { p \in Procs : rcall[p].service = service /\ rcall[p].ok }

\* C28: the rate-limit windows have no locking, so the check-then-record of
\* can_make_api_call is not atomic.  Every admitted call read a window
\* below the budget at its check, and still the window can hold more
\* timestamps of the last 60 seconds than the budget: it does so only after
\* a call was admitted that ran while another call for the same provider
\* was running, and by at most one timestamp per further thread.
C28_UnlockedWindow ==
    \A service \in Services :
        /\ \A p \in Admitted(service) : rcall[p].seen < MAX_CALLS_PER_MINUTE[service]
        /\ InWindow(service) <= MAX_CALLS_PER_MINUTE[service] + MaxProcs - 1
        /\ InWindow(service) > MAX_CALLS_PER_MINUTE[service]
               => \E p \in Admitted(service) : rcall[p].raced

\* Both threads were admitted for the same provider though each saw one
\* slot left, and the window holds more timestamps than the budget.
C28_Witness ==
    /\ \A p \in {1, 2} : rcall[p].pc = "done" /\ rcall[p].service = "pexels" /\ rcall[p].ok
    /\ \A p \in {1, 2} : rcall[p].seen = MAX_CALLS_PER_MINUTE["pexels"] - 1
    /\ InWindow("pexels") = MAX_CALLS_PER_MINUTE["pexels"] + 1

\* ------------------------------------------ properties of the strict filter

\* The best similarity among the candidates a logged call ranked.
TopScore(e) ==
    CHOOSE x \in { RankScore(e, RankAllowed(e)[i]) : i \in 1..Len(RankAllowed(e)) } :
        \A j \in 1..Len(RankAllowed(e)) : RankScore(e, RankAllowed(e)[j]) <= x

\* Strict mode, the candidates were ranked, the best of them is at or above
\* the threshold and its download succeeds.
StrictPasses(e) ==
    /\ USE_STRICT_CLIP_FILTER
    /\ Ranked(e)
    /\ TopScore(e) >= CLIP_SIMILARITY_THRESHOLD
    /\ e.arg.downloadable

\* C29: in strict mode, when the embedding model is available, the
\* top-ranked non-excluded candidate scores at or above the threshold and
\* its download succeeds, the pipeline returns that candidate's image and
\* URL: it is not rejected and the keyword-search fallback is not used.
C29_StrictAccepts ==
    \A i \in 1..Len(scall.log) :
        StrictPasses(scall.log[i])
        => /\ scall.log[i].arg.ret # NoneDict
           /\ RankScore(scall.log[i], scall.log[i].arg.ret) = TopScore(scall.log[i])
           /\ scall.url = scall.log[i].arg.ret.url
           /\ scall.data # NoImage
           /\ ~Logged("fallback")

\* ------------------------------------- properties of the default minimum

====
